---- MODULE Spec2Model ----
(***************************************************************************)
(* Verification model of the gta-simulator core:                           *)
(*   - the tile streamer        (src/src/world/ChunkWorld.ts, ChunkWorld)  *)
(*   - the tile generator       (src/src/world/ChunkWorld.ts, Chunk)       *)
(*   - the signal scheduler     (src/src/world/ChunkWorld.ts, ChunkWorld)  *)
(*   - the walkable projection  (src/src/npc/NPCManager.ts)                *)
(*   - the population engine    (src/src/npc/NPCManager.ts)                *)
(*                                                                         *)
(* Lengths are fixed-point integers, U units to the metre; times are       *)
(* fixed-point integers, T units to the second.                            *)
(***************************************************************************)
EXTENDS Integers, Sequences, FiniteSets, TLC

VARIABLES
  \* ---- WorldConfig fields changed at run time (App.autoQuality) ----
  FAR_RADIUS,                 \* tiles
  WINDOW_SKIP_FRONT,          \* hundredths
  WINDOW_SKIP_SIDE,           \* hundredths
  BUILDING_DETAIL_LOD_DIST,   \* metres
  shifts,                     \* quality shifts so far (bounded by MaxShifts)
  \* ---- tile streamer (ChunkWorld) ----
  loaded,        \* ChunkWorld.loaded : key <<x, z>> -> chunk object id
  chunks,        \* the Chunk objects constructed and not yet disposed
  nextId,        \* identity of the next object constructed
  obs,           \* the playerPos of the last update, <<x, z>> in metres
  lastR,         \* the FAR_RADIUS read by the last update
  created,       \* ids of the chunks the last update constructed
  disposed,      \* ids of the chunks the last update disposed
  prevLoaded,    \* loaded as it was when the last update was entered
  updates,       \* number of updates so far (bounded by MaxUpdates)
  \* ---- signal scheduler (ChunkWorld statics) ----
  sigT,          \* ChunkWorld._sigT, in time units
  signals,       \* ChunkWorld._signals : the registered signals, in order
  now,           \* performance.now() at the last frame, in time units
  \* ---- tile generator (Chunk) ----
  gen,           \* tile -> the content of its Chunk object, or NoChunk
  firstGen,      \* tile -> the content of the first Chunk made for it
  \* ---- walkable projection (pure function under test) ----
  zin,           \* the argument (x, z) of projectToWalkable, in length units
  zout,          \* its result, or NoPoint before the call
  \* ---- obstacle queries (ChunkWorld) ----
  qry,           \* the last query: its arguments and results, or NoPoint
  \* ---- population engine (NPCManager) ----
  sim,           \* NPCManager.sim : the SimNPC records, in slot order
  crowd,         \* NPCManager.crowd : ThinGroup
  fake,          \* NPCManager.fake : ThinGroup
  handoffAcc,    \* time units
  lastPlayerPos, \* NoPoint stands for (NaN, 0, NaN)
  simFrom,       \* history: Sim slot -> the Crowd index its agent was promoted from, or 0
  promos,        \* history: the promotions of the last update, each <<Crowd index,
                 \* Sim slot, squared distances of the Sim agents at the selection,
                 \* positions of the Sim agents, Crowd instances at the selection>>
  handoffLocks,  \* history: the lock timers as the handoff step of the last update left them
  shortFrames,   \* number of updates shorter than 1/15 s so far (bounded by MaxShort)
  moves,         \* number of updates that found the player at a new position
  stream,        \* the stream of draws this run of the program follows
  crowdMax,      \* WorldConfig.NPC_CROWD_MAX of this run (the pools are scaled down)
  ticks         \* number of updates so far (bounded by MaxTicks)

cfgVars == <<FAR_RADIUS, WINDOW_SKIP_FRONT, WINDOW_SKIP_SIDE,
             BUILDING_DETAIL_LOD_DIST, shifts>>

streamVars == <<loaded, chunks, nextId, obs, lastR, created, disposed,
                prevLoaded, updates>>

sigVars == <<sigT, signals, now>>

worldVars == <<cfgVars, streamVars, sigVars>>

zoneVars == <<zin, zout, qry>>

genVars == <<gen, firstGen>>

npcVars == <<sim, crowd, fake, handoffAcc, lastPlayerPos, simFrom, promos, handoffLocks,
            shortFrames, moves, stream, crowdMax, ticks>>

vars == <<worldVars, genVars, zoneVars, npcVars>>

----------------------------------------------------------------------------
(* Bounds of the model *)

MaxUpdates == 3
MaxShifts == 2        \* quality shifts of App.autoQuality in one behaviour
MaxFrames == 12       \* frames of one behaviour of the signal scheduler
MaxSigMoves == 2      \* its frames that may find the observer elsewhere
ZoneTileMax == 1      \* projection inputs are drawn from tiles 0..ZoneTileMax
MaxTicks == 30         \* updates of the population engine in one behaviour
MaxMoves == 1         \* updates that find the player at a new position
MaxShort == 1         \* updates shorter than 1/15 s
NPC_SIM_MAX == 2      \* WorldConfig.NPC_SIM_MAX, scaled down from 16
NPC_CROWD_MAX == 2    \* WorldConfig.NPC_CROWD_MAX, scaled down from 140
NPC_FAKE_MAX == 1     \* WorldConfig.NPC_FAKE_MAX, scaled down from 260
CrowdBusy == 7        \* WorldConfig.NPC_CROWD_MAX of a run whose Crowd pool
                      \* outnumbers the promotions of a tick at low speed

----------------------------------------------------------------------------
(* WorldConfig *)

CHUNK_SIZE == 64
FAR_RADIUS_MAX == 3
FAR_RADIUS_INIT == 2
WINDOW_SKIP_FRONT_INIT == 28        \* 0.28
WINDOW_SKIP_SIDE_INIT == 32         \* 0.32
BUILDING_DETAIL_LOD_DIST_INIT == 46

\* length units to the metre (0.05 m resolution: every constant below is whole)
U == 4 * 5

\* time units to the second
T == 3 * 100

Abs(a) == IF a < 0 THEN -a ELSE a
Max(a, b) == IF a >= b THEN a ELSE b
Min(a, b) == IF a <= b THEN a ELSE b

----------------------------------------------------------------------------
(* Tile streamer: ChunkWorld.update *)

\* Observer positions (metres) the frame loop may hand to update.
ObserverPositions == { <<0, 0>>, <<64, 0>>, <<-1, 127>> }
SigObserver == { <<0, 0>>, <<64, 0>> }

\* getDeltaTime() of a frame, in time units: 0.9 s and 2.9 s (the delta the
\* scheduler reads is not clamped)
FrameDeltas == { (9 * T) \div 10, (29 * T) \div 10 }

\* performance.now() when the first frame begins
PageLoad == T \div 2

\* a plausible slip: the tile is found by rounding, as the obstacle queries do
ChunkOfRounded(p) == (2 * p + CHUNK_SIZE) \div (2 * CHUNK_SIZE)

\* Math.floor(playerPos.x / CHUNK_SIZE)
ChunkOf(p) == p \div CHUNK_SIZE

\* the keys the first loop of update visits
WantKeys(cx, cz, r) == { <<x, z>> : x \in (cx - r)..(cx + r), z \in (cz - r)..(cz + r) }

\* order of the first loop: z outer, x inner
VisitedBefore(k1, k2) == k1[2] < k2[2] \/ (k1[2] = k2[2] /\ k1[1] < k2[1])

\* a plausible slip: every wanted tile is regenerated, loaded or not
CreateAll(ld, want, id0) ==
  LET idOf(k) == id0 + Cardinality({ k2 \in want : VisitedBefore(k2, k) })
  IN  [ k \in (DOMAIN ld) \cup want |-> IF k \in want THEN idOf(k) ELSE ld[k] ]

\* first loop: every wanted key not in the map gets a new Chunk
CreateMissing(ld, want, id0) ==
  LET missing == { k \in want : k \notin DOMAIN ld }
      idOf(k) == id0 + Cardinality({ k2 \in missing : VisitedBefore(k2, k) })
  IN  [ k \in (DOMAIN ld) \cup missing |-> IF k \in DOMAIN ld THEN ld[k] ELSE idOf(k) ]

\* second loop: which keys of the map are disposed and deleted
EvictedKeys(ld, want) == { k \in DOMAIN ld : k \notin want }

\* ---- the signal scheduler: ChunkWorld.updateSignals and registerSignal ----

\* Phase timings (seconds)
NS_GREEN == 10
NS_YELLOW == 2
ALL_RED_1 == 1
EW_GREEN == 10
EW_YELLOW == 2
ALL_RED_2 == 1
\* the cycle and the clock t are in time units
cycle == (NS_GREEN + NS_YELLOW + ALL_RED_1 + EW_GREEN + EW_YELLOW + ALL_RED_2) * T

inNSGreen(t) == t < NS_GREEN * T
inNSYellow(t) == t >= NS_GREEN * T /\ t < (NS_GREEN + NS_YELLOW) * T
inAllRed1(t) ==
  /\ t >= (NS_GREEN + NS_YELLOW) * T
  /\ t < (NS_GREEN + NS_YELLOW + ALL_RED_1) * T
inEWGreen(t) ==
  /\ t >= (NS_GREEN + NS_YELLOW + ALL_RED_1) * T
  /\ t < (NS_GREEN + NS_YELLOW + ALL_RED_1 + EW_GREEN) * T
inEWYellow(t) ==
  /\ t >= (NS_GREEN + NS_YELLOW + ALL_RED_1 + EW_GREEN) * T
  /\ t < (NS_GREEN + NS_YELLOW + ALL_RED_1 + EW_GREEN + EW_YELLOW) * T

\* _setLamp: the three lamp meshes of signal s enabled or disabled
setLamp(s, r, y, g) == [s EXCEPT !.red = r, !.yellow = y, !.green = g]

\* a plausible slip: in the EW-green branch the green lamp is lit for both
\* groups
lampAtBothGreen(s, t) ==
  LET isNS == s.phase = "NS"
  IN  IF inAllRed1(t) \/ (~inNSGreen(t) /\ ~inNSYellow(t) /\ ~inEWGreen(t) /\ ~inEWYellow(t))
      THEN setLamp(s, TRUE, FALSE, FALSE)
      ELSE IF inNSGreen(t) THEN setLamp(s, ~isNS, FALSE, isNS)
      ELSE IF inNSYellow(t) THEN setLamp(s, ~isNS, isNS, FALSE)
      ELSE IF inEWGreen(t) THEN setLamp(s, FALSE, FALSE, TRUE)
      ELSE IF inEWYellow(t) THEN setLamp(s, isNS, ~isNS, FALSE)
      ELSE setLamp(s, TRUE, FALSE, FALSE)

\* the body of the loop of updateSignals: signal s at clock value t
lampAt(s, t) ==
  LET isNS == s.phase = "NS"
  IN  IF inAllRed1(t) \/ (~inNSGreen(t) /\ ~inNSYellow(t) /\ ~inEWGreen(t) /\ ~inEWYellow(t))
      THEN setLamp(s, TRUE, FALSE, FALSE)
      ELSE IF inNSGreen(t) THEN setLamp(s, ~isNS, FALSE, isNS)
      ELSE IF inNSYellow(t) THEN setLamp(s, ~isNS, isNS, FALSE)
      ELSE IF inEWGreen(t) THEN setLamp(s, isNS, FALSE, ~isNS)
      ELSE IF inEWYellow(t) THEN setLamp(s, isNS, ~isNS, FALSE)
      ELSE setLamp(s, TRUE, FALSE, FALSE)

\* a plausible slip: the clock is advanced without the modulo
advanceUnwrapped(t, dt) == t + dt

\* this._sigT = (this._sigT + dt) % cycle
advance(t, dt) == (t + dt) % cycle

\* updateSignals(dt), for the clock value t it has computed
updateSignals(sigs, t) == [ i \in 1..Len(sigs) |-> lampAt(sigs[i], t) ]

\* a plausible slip: the three setEnabled calls are left out, and the signal
\* is pushed with its three lamp meshes enabled as they were created
registerSignalAsCreated(sigs, phase) ==
  Append(sigs, [phase |-> phase, red |-> TRUE, yellow |-> TRUE, green |-> TRUE])

\* registerSignal: the signal is pushed with its red lamp on
registerSignal(sigs, phase) ==
  Append(sigs, [phase |-> phase, red |-> TRUE, yellow |-> FALSE, green |-> FALSE])

\* the four makeSignal calls of the Chunk constructor, for n new chunks
RECURSIVE registerChunks(_, _)
registerChunks(sigs, n) ==
  IF n = 0 THEN sigs
  ELSE CHOOSE r \in { registerChunks(s, n - 1) :
                       s \in { registerSignal(registerSignal(registerSignal(registerSignal(
                                 sigs, "NS"), "EW"), "EW"), "NS") } } : TRUE

\* ---- ChunkWorld.update ----

\* update(playerPos) in a frame whose getDeltaTime() is dt
Update(px, pz, dt) ==
  /\ LET cx   == ChunkOf(px)
         cz   == ChunkOf(pz)
         r    == FAR_RADIUS
         want == WantKeys(cx, cz, r)
         ld1  == CreateMissing(loaded, want, nextId)
         newK == { k \in DOMAIN ld1 : k \notin DOMAIN loaded \/ ld1[k] # loaded[k] }
         out  == EvictedKeys(ld1, want)
     IN  /\ sigT' = advance(sigT, dt)
         /\ signals' = registerChunks(updateSignals(signals, advance(sigT, dt)),
                                      Cardinality(newK))
         /\ loaded' = [ k \in DOMAIN ld1 \ out |-> ld1[k] ]
         /\ chunks' = { c \in chunks : c.id \notin { ld1[k] : k \in out } }
                        \cup { [id |-> ld1[k], cx |-> k[1], cz |-> k[2]] : k \in newK \ out }
         /\ nextId' = nextId + Cardinality(newK)
         /\ created' = { ld1[k] : k \in newK }
         /\ disposed' = { ld1[k] : k \in out }
         /\ prevLoaded' = loaded
         /\ obs' = <<px, pz>>
         /\ lastR' = r
         /\ updates' = updates + 1
  /\ now' = now + dt
  /\ UNCHANGED <<cfgVars, genVars, zoneVars, npcVars>>

\* the window settings <<front, side>> after a downshift and after an upshift
SkipDown(c) == <<Min(75, c[1] + 6), Min(80, c[2] + 6)>>
SkipUp(c) == <<Max(18, c[1] - 4), Max(22, c[2] - 4)>>

\* App.autoQuality, the branch taken after 1.2 s below 50 FPS
QualityDown ==
  /\ shifts < MaxShifts
  /\ FAR_RADIUS' = Max(1, FAR_RADIUS - 1)
  /\ WINDOW_SKIP_FRONT' = SkipDown(<<WINDOW_SKIP_FRONT, WINDOW_SKIP_SIDE>>)[1]
  /\ WINDOW_SKIP_SIDE' = SkipDown(<<WINDOW_SKIP_FRONT, WINDOW_SKIP_SIDE>>)[2]
  /\ BUILDING_DETAIL_LOD_DIST' = Max(28, BUILDING_DETAIL_LOD_DIST - 6)
  /\ shifts' = shifts + 1
  /\ UNCHANGED <<streamVars, sigVars, genVars, zoneVars, npcVars>>

\* App.autoQuality, the branch taken after 4.5 s above 58 FPS
QualityUp ==
  /\ shifts < MaxShifts
  /\ FAR_RADIUS' = Min(FAR_RADIUS_MAX, FAR_RADIUS + 1)
  /\ WINDOW_SKIP_FRONT' = SkipUp(<<WINDOW_SKIP_FRONT, WINDOW_SKIP_SIDE>>)[1]
  /\ WINDOW_SKIP_SIDE' = SkipUp(<<WINDOW_SKIP_FRONT, WINDOW_SKIP_SIDE>>)[2]
  /\ BUILDING_DETAIL_LOD_DIST' = Min(60, BUILDING_DETAIL_LOD_DIST + 6)
  /\ shifts' = shifts + 1
  /\ UNCHANGED <<streamVars, sigVars, genVars, zoneVars, npcVars>>

----------------------------------------------------------------------------
(* Tile generator: mulberry32 and the Chunk constructor                    *)
(*                                                                         *)
(* A 32-bit word is a pair <<hi, lo>> of 16-bit halves, so that no         *)
(* intermediate value leaves the integer range of the checker.  rng() is   *)
(* kept to its 16 leading bits: r stands for the number r / 65536.         *)

W16 == 256 * 256

RECURSIVE XorBits(_, _, _)
XorBits(a, b, n) ==
  IF n = 0 THEN 0
  ELSE ((a + b) % 2) + 2 * XorBits(a \div 2, b \div 2, n - 1)

RECURSIVE OrBits(_, _, _)
OrBits(a, b, n) ==
  IF n = 0 THEN 0
  ELSE (IF a % 2 = 1 \/ b % 2 = 1 THEN 1 ELSE 0) + 2 * OrBits(a \div 2, b \div 2, n - 1)

Xor4 == [a \in 0..15 |-> [b \in 0..15 |-> XorBits(a, b, 4)]]

Xor16(a, b) ==
  Xor4[a % 16][b % 16]
  + 16 * Xor4[(a \div 16) % 16][(b \div 16) % 16]
  + 256 * Xor4[(a \div 256) % 16][(b \div 256) % 16]
  + 4096 * Xor4[a \div 4096][b \div 4096]

\* a ^ b
Xor32(p, q) == <<Xor16(p[1], q[1]), Xor16(p[2], q[2])>>

\* t | c for a constant c < 64
OrLow(p, c) == <<p[1], p[2] - (p[2] % 64) + OrBits(p[2] % 64, c, 6)>>

\* t >>> n for 0 < n < 16, with pw = 2^n
Shr(p, pw) == <<p[1] \div pw, (p[2] \div pw) + (p[1] % pw) * (W16 \div pw)>>

\* the element of a one-element set; The({ e(x) : x \in {v} }) is e(v) with
\* v computed once, whatever the evaluator does with a LET
The(S) == CHOOSE y \in S : TRUE

\* (a + b) modulo 2^32
Add32(p, q) ==
  The({ <<(p[1] + q[1] + lo \div W16) % W16, lo % W16>> : lo \in {p[2] + q[2]} })

\* the product of two 16-bit numbers as <<high half, low half>>
Mul16(a, b) ==
  The({ The({ <<p1 \div 256 + sm \div W16, sm % W16>> :
              sm \in {(p1 % 256) * 256 + (a % 256) * b} }) :
        p1 \in {(a \div 256) * b} })

\* Math.imul(a, b): the low 32 bits of the product
Imul(p0, q0) ==
  The({ <<(Mul16(p[2], q[2])[1] + Mul16(p[1], q[2])[2] + Mul16(p[2], q[1])[2]) % W16,
          Mul16(p[2], q[2])[2]>> : p \in {p0}, q \in {q0} })

\* ToInt32 of a number of magnitude below 2^31, as a word
ToWord(v) == <<(v \div W16) % W16, v % W16>>

\* (cx * 73856093) ^ (cz * 19349663) ^ 0x9e3779b9
ChunkSeed(cx, cz) ==
  Xor32(Xor32(ToWord(cx * 73856093), ToWord(cz * 19349663)), <<40503, 31161>>)

\* the closure's variable after k calls, each doing "seed += 0x6d2b79f5"
AfterCalls(seed, k) == Add32(seed, Imul(ToWord(k), <<27947, 31221>>))

\* the three assignments to t of mulberry32
Mix1(s1) == Imul(Xor32(s1, Shr(s1, 32768)), OrLow(s1, 1))
Mix2(t1) == Xor32(t1, Add32(t1, Imul(Xor32(t1, Shr(t1, 128)), OrLow(t1, 61))))
Mix3(t2) == Xor32(t2, Shr(t2, 16384))

\* the number the k-th call (k >= 1) of mulberry32(seed) returns
rng(seed, k) ==
  The({ The({ The({ Mix3(t2)[1] : t2 \in {Mix2(t1)} }) : t1 \in {Mix1(s1)} }) :
        s1 \in {AfterCalls(seed, k)} })

\* a + range * rng()
Scale(a, range, r) == a + (range * r) \div W16

\* rng() < p, p in hundredths
Below(r, p) == r * 100 < p * W16

----------------------------------------------------------------------------
(* Walkable zone geometry: NPCManager constants and projectToWalkable *)

ROAD_W == 12 * U                    \* NPCManager.ROAD_W
SIDEWALK_W == 4 * U                 \* NPCManager.SIDEWALK_W
CROSSWALK_OFFSET == (19 * U) \div 2 \* NPCManager.CROSSWALK_OFFSET = 9.5
CROSSWALK_WIDTH == (16 * U) \div 5  \* NPCManager.CROSSWALK_WIDTH = 3.2
TileLen == CHUNK_SIZE * U           \* const s = WorldConfig.CHUNK_SIZE
halfRoad == ROAD_W \div 2
halfTile == TileLen \div 2
cwHalf == CROSSWALK_WIDTH \div 2
ProjPad == (3 * U) \div 20          \* const pad = 0.15

NoPoint == [none |-> TRUE]
Pt(x, z) == [x |-> x, z |-> z]

\* a plausible slip: the tile found with Math.floor, as ChunkWorld.update does
FloorTile(v) == v \div TileLen

\* Math.round(v / s): the nearest tile, halves rounded up
RoundTile(v) == (2 * v + TileLen) \div (2 * TileLen)

Rect(x0, x1, z0, z1) == [minX |-> x0, maxX |-> x1, minZ |-> z0, maxZ |-> z1]

\* the four sidewalk bands, in the order the code pushes them
SidewalkRects ==
  << Rect(-halfTile, halfTile, halfRoad, halfRoad + SIDEWALK_W),
     Rect(-halfTile, halfTile, -halfRoad - SIDEWALK_W, -halfRoad),
     Rect(halfRoad, halfRoad + SIDEWALK_W, -halfTile, halfTile),
     Rect(-halfRoad - SIDEWALK_W, -halfRoad, -halfTile, halfTile) >>

\* the four crosswalk rectangles, in the order the code pushes them
CrosswalkRects ==
  << Rect(CROSSWALK_OFFSET - cwHalf, CROSSWALK_OFFSET + cwHalf, -halfRoad, halfRoad),
     Rect(-CROSSWALK_OFFSET - cwHalf, -CROSSWALK_OFFSET + cwHalf, -halfRoad, halfRoad),
     Rect(-halfRoad, halfRoad, CROSSWALK_OFFSET - cwHalf, CROSSWALK_OFFSET + cwHalf),
     Rect(-halfRoad, halfRoad, -CROSSWALK_OFFSET - cwHalf, -CROSSWALK_OFFSET + cwHalf) >>

rects == SidewalkRects \o CrosswalkRects

clamp(v, a, b) == Max(a, Min(b, v))

closestPointRect(px, pz, r) ==
  LET cxp == clamp(px, r.minX, r.maxX)
      czp == clamp(pz, r.minZ, r.maxZ)
      dx  == px - cxp
      dz  == pz - czp
  IN  [x |-> cxp, z |-> czp, d2 |-> dx * dx + dz * dz]

InRect(lx, lz, r) == lx >= r.minX /\ lx <= r.maxX /\ lz >= r.minZ /\ lz <= r.maxZ

\* the loop "if (cpt.d2 < best.d2) best = cpt" from rectangle i on;
\* d2 = -1 stands for Number.POSITIVE_INFINITY
RECURSIVE NearestFrom(_, _, _, _)
NearestFrom(i, lx, lz, best) ==
  IF i > Len(rects) THEN best
  ELSE LET cpt == closestPointRect(lx, lz, rects[i])
       IN  NearestFrom(i + 1, lx, lz,
                       IF best.d2 < 0 \/ cpt.d2 < best.d2 THEN cpt ELSE best)

\* the inward padding applied to the nearest point
PadPoint(best) ==
  IF /\ Abs(best.z) >= halfRoad
     /\ Abs(best.z) <= halfRoad + SIDEWALK_W     \* + 1e-3, below the resolution
     /\ Abs(best.x) > halfRoad
  THEN Pt(best.x, best.z)
  ELSE LET pz1 == IF best.z > halfRoad THEN Max(best.z, halfRoad + ProjPad) ELSE best.z
           pz2 == IF pz1 < -halfRoad THEN Min(pz1, -halfRoad - ProjPad) ELSE pz1
           px1 == IF best.x > halfRoad THEN Max(best.x, halfRoad + ProjPad) ELSE best.x
           px2 == IF px1 < -halfRoad THEN Min(px1, -halfRoad - ProjPad) ELSE px1
       IN  Pt(px2, pz2)

\* a plausible slip: the loop that keeps a position already inside an allowed
\* rectangle is missing, so every position goes through the nearest-point
\* search and the padding
projectAlwaysNearest(x, z) ==
  LET cx == RoundTile(x)
      cz == RoundTile(z)
      lx == x - cx * TileLen
      lz == z - cz * TileLen
      best == NearestFrom(1, lx, lz, [x |-> lx, z |-> lz, d2 |-> -1])
      p    == PadPoint(best)
  IN  Pt(cx * TileLen + p.x, cz * TileLen + p.z)

projectToWalkable(x, z) ==
  LET cx == RoundTile(x)
      cz == RoundTile(z)
      lx == x - cx * TileLen
      lz == z - cz * TileLen
  IN  IF \E i \in 1..Len(rects) : InRect(lx, lz, rects[i])
      THEN Pt(cx * TileLen + lx, cz * TileLen + lz)
      ELSE LET best == NearestFrom(1, lx, lz, [x |-> lx, z |-> lz, d2 |-> -1])
               p    == PadPoint(best)
           IN  Pt(cx * TileLen + p.x, cz * TileLen + p.z)

isInCrosswalkLocal(lx, lz) ==
  LET off      == CROSSWALK_OFFSET
      halfW    == CROSSWALK_WIDTH \div 2
      inRoadXBand == Abs(lz) <= halfRoad
      inCWX    == inRoadXBand /\ (Abs(lx - off) <= halfW \/ Abs(lx + off) <= halfW)
      inRoadZBand == Abs(lx) <= halfRoad
      inCWZ    == inRoadZBand /\ (Abs(lz - off) <= halfW \/ Abs(lz + off) <= halfW)
  IN  inCWX \/ inCWZ

isInCrosswalkWorld(x, z) ==
  isInCrosswalkLocal(x - RoundTile(x) * TileLen, z - RoundTile(z) * TileLen)

\* ---- the tile's ground meshes (Chunk constructor) ----
roadW == 12 * U                     \* const roadW = 12
sidewalkW == 4 * U                  \* const sidewalkW = 4.0
\* roadX: width s, depth roadW;  roadZ: width roadW, depth s
OnRoadMesh(lx, lz) == Abs(lz) <= roadW \div 2 \/ Abs(lx) <= roadW \div 2
\* sideX1, sideX2: width s, depth sidewalkW at z = +-(halfRoad + sidewalkW/2);
\* sideZ1, sideZ2: width sidewalkW, depth s at x = +-(halfRoad + sidewalkW/2)
OnSidewalkMesh(lx, lz) ==
  \/ (Abs(lz) >= roadW \div 2 /\ Abs(lz) <= roadW \div 2 + sidewalkW)
  \/ (Abs(lx) >= roadW \div 2 /\ Abs(lx) <= roadW \div 2 + sidewalkW)

\* the four buildable lots, one per quadrant
lotSetback == roadW \div 2 + sidewalkW + 2 * U
lotMax == (CHUNK_SIZE * U) \div 2 - 6 * U
OnLotMesh(lx, lz) ==
  /\ Abs(lx) >= lotSetback /\ Abs(lx) <= lotMax
  /\ Abs(lz) >= lotSetback /\ Abs(lz) <= lotMax

\* ---- the projection as an operation on a drawn input ----
ZoneLocals ==
  LET pos == { 119, 120, 121, 140, 157, 158, 180, 200, 201, 222, 223, 300, 640 }
  IN  {0} \cup pos \cup { -v : v \in pos }

ZoneInputs == { t * TileLen + l : t \in 0..ZoneTileMax, l \in ZoneLocals }

InitZone ==
  /\ zin \in { Pt(x, z) : x \in ZoneInputs, z \in ZoneInputs }
  /\ zout = NoPoint
  /\ qry = NoPoint

Project ==
  /\ zout = NoPoint
  /\ zout' = projectToWalkable(zin.x, zin.z)
  /\ UNCHANGED <<zin, qry, worldVars, genVars, npcVars>>

\* the caller feeds the projected position back (an agent re-projected next tick)
Reproject ==
  /\ zout # NoPoint
  /\ zout # zin
  /\ zin' = zout
  /\ zout' = NoPoint
  /\ UNCHANGED <<qry, worldVars, genVars, npcVars>>

IdleZone == zin = Pt(0, 0) /\ zout = NoPoint /\ qry = NoPoint

\* ---- createBuilding: the window loops ----

\* slots visited by "for (i = 0; i < max(2, floor(len / 1.6)); i++)" before
\* "if (-len / 2 + 1.0 + i * 1.5 > len / 2 - 1.0) break"
SlotsAlong(len) ==
  Cardinality({ i \in 0..(Max(2, len \div ((8 * U) \div 5)) - 1) :
                  i * ((3 * U) \div 2) + 2 * U <= len })

\* rows visited by "for (r = 0; r < max(2, floor(h / 2.6)); r++)" before
\* "if (1.6 + r * 2.2 > h - 1.2) break"
RowsOf(h) ==
  Cardinality({ r \in 0..(Max(2, h \div ((13 * U) \div 5)) - 1) :
                  (8 * U) \div 5 + r * ((11 * U) \div 5) <= h - (6 * U) \div 5 })

\* The calls of rng made by createBuilding with dims given: the palette,
\* the roof, then in every row one call per front slot ("if (rng() <
\* WINDOW_SKIP_FRONT) continue") and one per side slot; a slot not skipped
\* pushes two windows.  cfg = <<WINDOW_SKIP_FRONT, WINDOW_SKIP_SIDE>>
WindowsKept(seed, w, d, h, cfg) ==
  The({ Cardinality({ j \in 0..(RowsOf(h) * (nf + SlotsAlong(d)) - 1) :
                        ~Below(rng(seed, 3 + j),
                               IF j % (nf + SlotsAlong(d)) < nf THEN cfg[1] ELSE cfg[2]) }) :
        nf \in {SlotsAlong(w)} })

\* a plausible slip: every window kept draws once more (a brightness
\* jitter), so the number of calls follows the window density
createBuildingJitter(seed, w, d, h, cfg) ==
  The({ [seed |-> AfterCalls(seed, 2 + RowsOf(h) * (SlotsAlong(w) + SlotsAlong(d)) + kept),
         windows |-> 2 * kept] :
        kept \in {WindowsKept(seed, w, d, h, cfg)} })

\* createBuilding: the closure's variable afterwards and the windows returned
createBuilding(seed, w, d, h, cfg) ==
  [seed |-> AfterCalls(seed, 2 + RowsOf(h) * (SlotsAlong(w) + SlotsAlong(d))),
   windows |-> 2 * WindowsKept(seed, w, d, h, cfg)]

\* ---- Chunk constructor: lots and building placement ----

\* makeLot(sx, sz), in the order the lots are made
Lots ==
  LET lot(sx, sz) ==
        Rect(IF sx > 0 THEN lotSetback ELSE -lotMax,
             IF sx > 0 THEN lotMax ELSE -lotSetback,
             IF sz > 0 THEN lotSetback ELSE -lotMax,
             IF sz > 0 THEN lotMax ELSE -lotSetback)
  IN  << lot(-1, -1), lot(1, -1), lot(-1, 1), lot(1, 1) >>

PlacePad == (8 * U) \div 5          \* const pad = 1.6
PlaceTries == 4 * 7                 \* for (let t = 0; t < 28; t++)

\* a plausible slip: the plain AABB test, without the padding
overlapsNoPad(a, b) ==
  /\ 2 * Abs(a.x - b.x) < a.w + b.w
  /\ 2 * Abs(a.z - b.z) < a.d + b.d

overlaps(a, b) ==
  /\ 2 * Abs(a.x - b.x) < a.w + b.w + 2 * PlacePad
  /\ 2 * Abs(a.z - b.z) < a.d + b.d + 2 * PlacePad

\* a plausible slip: the centre is drawn over the whole lot, the half
\* width and half depth of the footprint not taken off
FootprintCentreInLot(lot, w, d, rx, rz) ==
  [x |-> Scale(lot.minX, lot.maxX - lot.minX, rx),
   z |-> Scale(lot.minZ, lot.maxZ - lot.minZ, rz),
   w |-> w, d |-> d]

\* the footprint tried with the draws rx and rz
Footprint(lot, w, d, rx, rz) ==
  [x |-> Scale(lot.minX + w \div 2, (lot.maxX - w \div 2) - (lot.minX + w \div 2), rx),
   z |-> Scale(lot.minZ + d \div 2, (lot.maxZ - d \div 2) - (lot.minZ + d \div 2), rz),
   w |-> w, d |-> d]

\* tryPlaceInLot: try t (from 0) makes the calls 2t+1 and 2t+2; the first
\* try whose footprint overlaps nothing placed returns (tries is history: the
\* number of positions tried)
tryPlaceInLot(seed, placed, lot, w, d) ==
  The({ IF free = {}
        THEN [seed |-> AfterCalls(seed, 2 * PlaceTries), ok |-> FALSE, tries |-> PlaceTries]
        ELSE The({ [seed |-> AfterCalls(seed, 2 * t + 2), ok |-> TRUE, tries |-> t + 1,
                    fp |-> Footprint(lot, w, d, rng(seed, 2 * t + 1), rng(seed, 2 * t + 2))] :
                   t \in { u \in free : \A v \in free : u <= v } }) :
        free \in { { t \in 0..(PlaceTries - 1) :
                     \A i \in 1..Len(placed) :
                       ~overlaps(Footprint(lot, w, d, rng(seed, 2 * t + 1),
                                           rng(seed, 2 * t + 2)), placed[i]) } } })

\* the record of a placed building: root position, height, footprint
Building(fp, h) ==
  [x |-> fp.x, z |-> fp.z, h |-> h,
   minX |-> fp.x - fp.w \div 2, maxX |-> fp.x + fp.w \div 2,
   minZ |-> fp.z - fp.d \div 2, maxZ |-> fp.z + fp.d \div 2]

\* one pass of "for (let i = 0; i < count; i++)" with the dims drawn:
\* c = [seed, placed, buildings, windows]
OneBuilding(c, lot, w, d, h, cfg) ==
  The({ IF ~pos.ok
        THEN [c EXCEPT !.seed = pos.seed, !.tries = Append(c.tries, <<pos.tries, FALSE>>)]
        ELSE The({ [seed |-> b.seed,
                    tries |-> Append(c.tries, <<pos.tries, TRUE>>),
                    placed |-> Append(c.placed, pos.fp),
                    buildings |-> Append(c.buildings, Building(pos.fp, h)),
                    windows |-> c.windows + b.windows] :
                   b \in {createBuilding(pos.seed, w, d, h, cfg)} }) :
        pos \in {tryPlaceInLot(AfterCalls(c.seed, 3), c.placed, lot, w, d)} })

RECURSIVE LotBuildings(_, _, _, _, _)
LotBuildings(c0, lot, i, count, cfg) ==
  The({ IF i >= count THEN c
        ELSE LotBuildings(OneBuilding(c, lot,
                                      Scale(5 * U, 8 * U, rng(c.seed, 1)),
                                      Scale(5 * U, 8 * U, rng(c.seed, 2)),
                                      Scale(8 * U, 24 * U, rng(c.seed, 3)), cfg),
                          lot, i + 1, count, cfg) :
        c \in {c0} })

\* "for (const lot of lots)" from lot n on; count = 2 + floor(rng() * 4)
RECURSIVE LotsFrom(_, _, _)
LotsFrom(c0, n, cfg) ==
  The({ IF n > Len(Lots) THEN c
        ELSE LotsFrom(LotBuildings([c EXCEPT !.seed = AfterCalls(c.seed, 1)], Lots[n], 0,
                                   2 + (rng(c.seed, 1) * 4) \div W16, cfg),
                      n + 1, cfg) :
        c \in {c0} })

\* new Chunk(scene, cx, cz) under the window settings cfg: its buildings
\* (tile-local, in length units) and the number of its window instances
Chunk(cx, cz, cfg) ==
  The({ [buildings |-> c.buildings, windows |-> c.windows, tries |-> c.tries] :
        c \in {LotsFrom([seed |-> ChunkSeed(cx, cz), placed |-> << >>, tries |-> << >>,
                         buildings |-> << >>, windows |-> 0], 1, cfg)} })

\* ---- the generator as operations on a few tiles ----

GenTiles == { <<0, 0>>, <<-1, 2>>, <<1, 0>> }

\* the window settings autoQuality can reach within n shifts
RECURSIVE SkipsWithin(_)
SkipsWithin(n) ==
  IF n = 0 THEN { <<WINDOW_SKIP_FRONT_INIT, WINDOW_SKIP_SIDE_INIT>> }
  ELSE LET R == SkipsWithin(n - 1)
       IN  R \cup { SkipDown(c) : c \in R } \cup { SkipUp(c) : c \in R }

\* the Chunk the constructor builds for each tile under each setting
ChunkTable ==
  [ k \in GenTiles |->
      [ cfg \in SkipsWithin(MaxShifts) |-> Chunk(k[1], k[2], cfg) ] ]

NoChunk == [none |-> TRUE]

InitGen ==
  /\ gen = [ k \in GenTiles |-> NoChunk ]
  /\ firstGen = [ k \in GenTiles |-> NoChunk ]

\* this.loaded.set(key, new Chunk(this.scene, x, z))
NewChunk(k) ==
  /\ gen[k] = NoChunk
  /\ LET c == ChunkTable[k][<<WINDOW_SKIP_FRONT, WINDOW_SKIP_SIDE>>]
     IN  /\ gen' = [gen EXCEPT ![k] = c]
         /\ firstGen' = IF firstGen[k] = NoChunk
                        THEN [firstGen EXCEPT ![k] = c] ELSE firstGen
  /\ UNCHANGED <<worldVars, zoneVars, npcVars>>

\* chunk.dispose(); this.loaded.delete(key)
DisposeChunk(k) ==
  /\ gen[k] # NoChunk
  /\ gen' = [gen EXCEPT ![k] = NoChunk]
  /\ UNCHANGED <<firstGen, worldVars, zoneVars, npcVars>>

\* the tile-local coordinate of a world coordinate
LocalOf(v) == v - RoundTile(v) * TileLen

\* the pedestrian-legal set of the world, from the ground meshes of the tiles
\* and the crosswalk test, independently of the projection's rectangle list
LegalInTile(q, tx, tz) ==
  LET lx == q.x - tx * TileLen
      lz == q.z - tz * TileLen
  IN  /\ Abs(lx) <= halfTile /\ Abs(lz) <= halfTile
      /\ (OnSidewalkMesh(lx, lz) \/ isInCrosswalkLocal(lx, lz))
WorldLegal(q) ==
  \E tx \in { RoundTile(q.x) - 1, RoundTile(q.x) },
     tz \in { RoundTile(q.z) - 1, RoundTile(q.z) } : LegalInTile(q, tx, tz)

----------------------------------------------------------------------------
(* Population engine: NPCManager                                           *)
(*                                                                         *)
(* Angles are whole sixteenths of a turn.  rand() is kept to hundredths:   *)
(* rand(v, k) is the number the call at site k returns in an update whose  *)
(* draws follow stream v.                                                  *)

NPC_SIM_RADIUS == 42 * U
NPC_CROWD_RADIUS == 120 * U
NPC_FAKE_RADIUS == 200 * U
HANDOFF_DIST == 6 * U
HandoffStep == T \div 6                   \* 1 / HANDOFF_HZ
CrowdLogicStep == T \div 4                \* 1 / NPC_CROWD_LOGIC_HZ
FakeRefreshStep == 2 * T                  \* 1 / NPC_FAKE_REFRESH_HZ
CROWD_SUPPRESS_SEC == T
CROWD_FADE_OUT_SEC == (22 * T) \div 100
SIM_FADE_IN_SEC == (28 * T) \div 100      \* SimNPC.fade is kept as fade * 0.28 s
SIM_MOVE_RAMP_SEC == (30 * T) \div 100

\* NPCManager.rand is a xorshift generator.  In place of its state the model
\* keeps tables of the numbers it returns, in hundredths, by the site of the
\* call; a run of the program follows one of the tables.
Streams ==
  <<
  << 41, 19, 50, 83, 6, 9, 68, 12, 46, 74, 7, 64, 27, 4, 11, 55, 53, 8, 30, 11,
     70, 54, 7, 72, 15, 28, 80, 80, 74, 7, 73, 74, 50, 6, 28, 5, 71, 17, 37, 53,
     27, 0, 15, 73, 39, 71, 87, 23, 13, 74, 73, 81, 24, 3, 0, 70, 91, 8, 72, 7,
     79, 26, 63, 87, 68, 54, 99, 40, 59, 74, 58, 46, 38, 31, 23, 89, 99, 31, 10, 73,
     38, 67, 63, 43, 93, 57, 36, 77, 9, 15, 65, 53, 21, 52, 0, 19, 62, 53, 5, 85,
     9, 97, 71, 73, 40, 43, 88, 44, 76, 63, 74, 58, 8, 11, 34, 60, 89, 85, 8, 7,
     93, 89, 39, 82, 73, 87, 57, 36, 91, 49, 85, 44, 2, 59, 45, 21, 78, 14, 63, 7,
     27, 98, 36, 16, 94, 31, 50, 50, 63, 10, 21, 57, 51, 70, 35, 17, 55, 70, 35, 90,
     53, 45, 87, 48, 29, 19, 10, 22, 19, 29, 84, 29, 1, 62, 75, 23, 33, 36, 0, 18,
     53, 68, 47, 78, 72, 40, 16, 88, 65, 79, 83, 86, 94, 6, 58, 99, 87, 71, 50, 50 >>,
  << 51, 50, 13, 61, 81, 51, 7, 24, 8, 26, 56, 20, 14, 43, 76, 6, 13, 0, 72, 19,
     68, 12, 46, 78, 3, 9, 26, 78, 48, 19, 81, 32, 44, 77, 46, 60, 15, 14, 62, 59,
     52, 21, 99, 10, 18, 10, 77, 21, 94, 33, 61, 88, 20, 3, 1, 26, 67, 46, 18, 88,
     69, 3, 97, 67, 38, 82, 11, 89, 33, 66, 46, 21, 45, 59, 28, 68, 69, 99, 64, 42,
     81, 90, 78, 97, 24, 30, 51, 94, 29, 25, 66, 63, 45, 93, 40, 3, 35, 60, 33, 24,
     88, 77, 44, 57, 92, 44, 46, 10, 28, 13, 29, 60, 25, 43, 26, 61, 79, 78, 0, 61,
     83, 44, 82, 10, 84, 15, 49, 91, 96, 25, 61, 22, 55, 81, 42, 11, 92, 50, 59, 51,
     95, 10, 92, 20, 21, 16, 3, 19, 75, 59, 83, 18, 78, 76, 60, 84, 44, 19, 70, 70,
     16, 2, 1, 92, 83, 13, 67, 95, 17, 55, 24, 27, 3, 32, 27, 37, 64, 30, 97, 75,
     41, 33, 69, 53, 16, 7, 94, 45, 58, 84, 74, 66, 53, 64, 16, 68, 19, 67, 65, 2 >>,
  << 41, 19, 50, 83, 6, 9, 68, 12, 46, 74, 7, 64, 27, 53, 4, 55, 53, 8, 30, 11,
     70, 54, 7, 72, 15, 28, 80, 80, 74, 7, 73, 74, 50, 6, 28, 5, 71, 17, 37, 53,
     27, 0, 15, 73, 39, 71, 87, 23, 13, 74, 73, 81, 24, 3, 0, 70, 91, 46, 18, 7,
     79, 26, 63, 87, 68, 54, 99, 40, 59, 74, 58, 46, 38, 31, 23, 89, 99, 31, 10, 73,
     38, 67, 63, 43, 93, 57, 36, 77, 9, 15, 65, 53, 21, 52, 0, 19, 62, 53, 5, 85,
     9, 97, 71, 73, 40, 43, 88, 44, 76, 63, 74, 58, 8, 11, 34, 60, 89, 85, 8, 7,
     93, 89, 39, 82, 73, 87, 57, 36, 91, 49, 85, 44, 2, 3, 2, 21, 78, 14, 63, 7,
     27, 98, 36, 16, 94, 31, 50, 50, 63, 10, 21, 57, 51, 70, 35, 17, 55, 70, 35, 90,
     53, 45, 87, 48, 29, 19, 10, 22, 19, 29, 84, 29, 1, 52, 3, 23, 33, 36, 0, 18,
     53, 68, 47, 78, 72, 40, 16, 88, 65, 79, 83, 86, 94, 6, 58, 99, 87, 71, 50, 50 >>,
  << 41, 19, 50, 83, 6, 9, 68, 12, 46, 74, 7, 64, 27, 4, 11, 55, 53, 8, 30, 11,
     70, 54, 7, 72, 15, 28, 80, 80, 74, 7, 73, 74, 50, 6, 28, 5, 71, 17, 37, 53,
     27, 0, 15, 73, 39, 71, 57, 44, 63, 36, 58, 47, 64, 40, 60, 50, 65, 43, 61, 53,
     66, 46, 59, 45, 67, 38, 62, 55, 68, 48, 57, 49, 38, 31, 23, 89, 99, 31, 10, 73,
     38, 67, 63, 43, 93, 57, 36, 77, 9, 15, 65, 53, 21, 52, 0, 19, 62, 53, 5, 85,
     9, 97, 71, 73, 40, 43, 88, 44, 76, 63, 74, 58, 8, 11, 34, 60, 89, 85, 8, 7,
     93, 89, 39, 82, 73, 87, 57, 36, 91, 49, 85, 44, 2, 59, 45, 21, 78, 14, 63, 7,
     27, 98, 36, 16, 94, 31, 50, 50, 63, 10, 21, 57, 51, 70, 35, 17, 55, 70, 35, 90,
     53, 45, 87, 48, 29, 19, 10, 22, 19, 29, 84, 29, 1, 62, 75, 23, 33, 36, 0, 18,
     53, 68, 47, 78, 72, 40, 16, 88, 65, 79, 83, 86, 94, 6, 58, 99, 87, 71, 50, 50 >>,
  << 51, 50, 13, 61, 81, 51, 7, 24, 8, 26, 56, 20, 14, 43, 76, 6, 13, 0, 72, 19,
     68, 12, 46, 78, 3, 9, 26, 78, 48, 19, 81, 32, 44, 77, 46, 60, 15, 14, 62, 59,
     52, 21, 99, 10, 18, 10, 77, 21, 94, 33, 61, 88, 20, 3, 1, 26, 67, 52, 0, 88,
     69, 3, 97, 67, 38, 82, 11, 89, 33, 66, 46, 21, 45, 59, 28, 68, 69, 99, 64, 42,
     81, 90, 78, 97, 24, 30, 51, 94, 29, 25, 66, 63, 45, 69, 2, 25, 35, 60, 33, 24,
     88, 77, 44, 50, 92, 44, 46, 10, 28, 13, 29, 60, 25, 43, 26, 61, 79, 78, 0, 61,
     83, 44, 82, 10, 84, 15, 49, 91, 96, 25, 61, 22, 55, 81, 42, 11, 92, 50, 59, 51,
     95, 10, 92, 20, 21, 16, 3, 19, 75, 59, 83, 18, 78, 76, 60, 84, 44, 19, 70, 70,
     16, 2, 1, 92, 83, 13, 67, 95, 17, 55, 24, 27, 3, 32, 27, 37, 64, 30, 97, 75,
     41, 33, 69, 53, 16, 7, 94, 45, 58, 84, 74, 66, 53, 64, 16, 68, 19, 67, 65, 2 >>,
  << 51, 50, 13, 61, 81, 51, 7, 24, 8, 26, 56, 20, 14, 43, 76, 6, 13, 0, 72, 19,
     68, 12, 46, 78, 3, 9, 26, 78, 48, 19, 81, 32, 44, 77, 46, 60, 15, 14, 62, 59,
     52, 21, 99, 50, 18, 50, 77, 21, 94, 33, 61, 88, 20, 3, 1, 26, 67, 46, 18, 88,
     69, 3, 97, 67, 38, 82, 11, 89, 33, 66, 46, 21, 45, 59, 28, 68, 0, 99, 64, 42,
     81, 90, 78, 97, 24, 30, 51, 94, 29, 25, 66, 63, 45, 93, 40, 3, 35, 60, 33, 24,
     88, 77, 44, 57, 92, 44, 46, 10, 28, 13, 29, 60, 25, 43, 26, 61, 79, 78, 0, 61,
     83, 44, 82, 10, 84, 15, 49, 91, 96, 25, 61, 22, 55, 81, 42, 11, 92, 50, 59, 51,
     95, 10, 92, 20, 21, 16, 3, 19, 75, 59, 83, 18, 78, 76, 60, 84, 44, 19, 70, 70,
     16, 2, 1, 92, 83, 13, 67, 95, 17, 55, 24, 27, 3, 32, 27, 37, 64, 30, 97, 75,
     41, 33, 69, 53, 16, 7, 94, 45, 58, 84, 74, 66, 53, 64, 16, 68, 19, 67, 65, 2 >>
  >>
rand(v, k) == Streams[v][(k % Len(Streams[v])) + 1]

\* the positions of the player the frame loop may hand to update
PlayerPositions == { Pt(30 * U, (19 * U) \div 2), Pt(30 * U + 3 * TileLen, (19 * U) \div 2) }

Dist2(a, b) == (a.x - b.x) * (a.x - b.x) + (a.z - b.z) * (a.z - b.z)

\* a / b to the nearest whole number, b > 0
RDiv(a, b) == (2 * a + b) \div (2 * b)

\* Math.sqrt, rounded down
RECURSIVE SqrtIn(_, _, _)
SqrtIn(n, lo, hi) ==
  IF lo >= hi THEN lo
  ELSE IF ((lo + hi + 1) \div 2) * ((lo + hi + 1) \div 2) <= n
       THEN SqrtIn(n, (lo + hi + 1) \div 2, hi)
       ELSE SqrtIn(n, lo, (lo + hi + 1) \div 2 - 1)
Sqrt(n) == SqrtIn(n, 0, 46340)

\* 1000 cos and 1000 sin of a sixteenths of a turn
Cos16 == << 1000, 924, 707, 383, 0, -383, -707, -924,
            -1000, -924, -707, -383, 0, 383, 707, 924 >>
cos(a) == Cos16[(a % 16) + 1]
sin(a) == Cos16[((a + 12) % 16) + 1]

\* Math.atan2(dx, dz): the sixteenth whose direction is nearest to (dx, dz)
atan2(dx, dz) ==
  The({ a \in 0..15 : \A b \in 0..15 :
          \/ sin(a) * dx + cos(a) * dz > sin(b) * dx + cos(b) * dz
          \/ (sin(a) * dx + cos(a) * dz = sin(b) * dx + cos(b) * dz /\ a <= b) })

\* rand() * Math.PI * 2
randAngle(r) == (r * 16) \div 100

\* the site of a call of rand(): the agent's slot and the place in the code
Site(i, j) == 40 * i + j

randomPointInRing(center, minR, maxR, v, k) ==
  The({ Pt(center.x + RDiv(cos(randAngle(rand(v, k))) * r, 1000),
           center.z + RDiv(sin(randAngle(rand(v, k))) * r, 1000)) :
        r \in {Sqrt(minR * minR + ((maxR * maxR - minR * minR) * rand(v, k + 1)) \div 100)} })

\* a plausible slip: the sample is returned without the projection
sampleRawInRing(center, minR, maxR, v, k) ==
  randomPointInRing(center, minR, maxR, v, k)

\* projectToWalkable(randomPointInRing(center, minR, maxR))
sampleWalkableInRing(center, minR, maxR, v, k) ==
  The({ projectToWalkable(q.x, q.z) : q \in {randomPointInRing(center, minR, maxR, v, k)} })

\* the first of 12 samples that is not in a crosswalk, else a 13th
sampleSidewalkDest(center, radius, v, k) ==
  The({ IF ok = {} THEN sampleWalkableInRing(center, 6 * U, radius, v, k + 24)
        ELSE sampleWalkableInRing(center, 6 * U, radius, v,
                                  k + 2 * The({ j \in ok : \A j2 \in ok : j <= j2 })) :
        ok \in { { j \in 0..11 :
                   \E q \in {sampleWalkableInRing(center, 6 * U, radius, v, k + 2 * j)} :
                     ~isInCrosswalkWorld(q.x, q.z) } } })

classifySideWorld(x, z) ==
  IF LocalOf(z) > halfRoad THEN "N"
  ELSE IF LocalOf(z) < -halfRoad THEN "S"
  ELSE IF LocalOf(x) > halfRoad THEN "E"
  ELSE "W"

\* the waypoints planWalkChain pushes before it projects them
Route(from, dest, sideA, sideB) ==
  LET hp == halfRoad + (7 * U) \div 20          \* halfRoad + pad, pad = 0.35
      ns(s) == s \in {"N", "S"}
      off == CROSSWALK_OFFSET
  IN  IF sideA = sideB THEN << dest >>
      ELSE IF ns(sideA) # ns(sideB)
      THEN LET sx == IF sideB = "E" THEN 1 ELSE IF sideB = "W" THEN -1
                     ELSE IF sideA = "E" THEN 1 ELSE -1
               sz == IF sideB = "N" THEN 1 ELSE IF sideB = "S" THEN -1
                     ELSE IF sideA = "N" THEN 1 ELSE -1
           IN  << projectToWalkable(sx * hp, sz * hp), dest >>
      ELSE IF ns(sideA)
      THEN LET cwX == IF Abs(from.x - off) < Abs(from.x + off) THEN off ELSE -off
               entryZ == IF sideA = "N" THEN hp ELSE -hp
               exitZ == IF sideB = "N" THEN hp ELSE -hp
           IN  << Pt(cwX, entryZ), Pt(cwX, 0), Pt(cwX, exitZ), dest >>
      ELSE LET cwZ == IF Abs(from.z - off) < Abs(from.z + off) THEN off ELSE -off
               entryX == IF sideA = "E" THEN hp ELSE -hp
               exitX == IF sideB = "E" THEN hp ELSE -hp
           IN  << Pt(entryX, cwZ), Pt(0, cwZ), Pt(exitX, cwZ), dest >>

\* planWalkChain: the projected waypoints; the first becomes the target
planWalkChain(from, around, radius, v, k) ==
  The({ The({ [i \in 1..Len(way) |-> projectToWalkable(way[i].x, way[i].z)] :
              way \in {Route(from, dest, classifySideWorld(from.x, from.z),
                             classifySideWorld(dest.x, dest.z))} }) :
        dest \in {sampleSidewalkDest(around, radius, v, k)} })

\* plan is history: the position the route was planned from and its waypoints
withPlan(n, way) ==
  [n EXCEPT !.target = way[1], !.way = Tail(way), !.plan = <<n.pos>> \o way]

isCrosswalkEntry(wp, next) ==
  LET near(a, b, eps) == Abs(a - b) < eps
      hp == halfRoad + (3 * U) \div 5           \* halfRoad + pad, pad = 0.6
  IN  IF /\ near(Abs(wp.x), CROSSWALK_OFFSET, (17 * U) \div 20)
         /\ near(next.x, wp.x, U \div 4)
         /\ Abs(next.z) < U \div 4
         /\ near(Abs(wp.z), hp, (5 * U) \div 4)
      THEN "NS"
      ELSE IF /\ near(Abs(wp.z), CROSSWALK_OFFSET, (17 * U) \div 20)
              /\ near(next.z, wp.z, U \div 4)
              /\ Abs(next.x) < U \div 4
              /\ near(Abs(wp.x), hp, (5 * U) \div 4)
      THEN "EW"
      ELSE "none"

\* trafficCarsXGreen(tSec), tSec being performance.now() * 0.001
trafficCarsXGreen(tSec) == tSec % (16 * T) < 8 * T

\* a plausible slip: both crossings are gated on "cars X are not green"
canPedCrossSame(axis, xGreen) == ~xGreen

\* canPedCrossNS / canPedCrossEW, xGreen being trafficCarsXGreen(now)
canPedCross(axis, xGreen) == IF axis = "NS" THEN ~xGreen ELSE xGreen

\* ---- the obstacle queries of ChunkWorld over the loaded tiles ----

\* Chunk.getObstacleAabbsWorld: the footprints of tile k grown by pad = 0.55
ObstacleBoxes(g, k) ==
  [ i \in 1..Len(g[k].buildings) |->
      Rect(k[1] * TileLen + g[k].buildings[i].minX - (11 * U) \div 20,
           k[1] * TileLen + g[k].buildings[i].maxX + (11 * U) \div 20,
           k[2] * TileLen + g[k].buildings[i].minZ - (11 * U) \div 20,
           k[2] * TileLen + g[k].buildings[i].maxZ + (11 * U) \div 20) ]

\* the boxes the loops over dz, dx and aabbs visit, in their order; a tile that
\* is not loaded is skipped
RECURSIVE BoxesFrom(_, _, _, _)
BoxesFrom(g, cx0, cz0, n) ==
  IF n >= 9 THEN << >>
  ELSE The({ (IF k \in DOMAIN g /\ g[k] # NoChunk THEN ObstacleBoxes(g, k) ELSE << >>)
               \o BoxesFrom(g, cx0, cz0, n + 1) :
             k \in {<<cx0 + (n % 3) - 1, cz0 + (n \div 3) - 1>>} })
NearBoxes(g, pos) == BoxesFrom(g, RoundTile(pos.x), RoundTile(pos.z), 0)

\* the squared distance of the centre to the closest point of box a
BoxDist2(pos, a) ==
  Dist2(pos, Pt(Max(a.minX, Min(pos.x, a.maxX)), Max(a.minZ, Min(pos.z, a.maxZ))))

\* the body of "for (const a of aabbs)": st = [pos, moved].  With d2 = 0 the
\* code takes d = sqrt(1e-8), which is not below 1e-4, and adds (0 / d) * push;
\* skin = 0.012 is below the resolution of the model
pushOut(st, a, radius) ==
  The({ IF d2 >= radius * radius THEN st
        ELSE IF d2 = 0 THEN [st EXCEPT !.moved = TRUE]
        ELSE The({ [pos |-> Pt(st.pos.x + RDiv((st.pos.x - Max(a.minX, Min(st.pos.x, a.maxX)))
                                               * (radius - d + (3 * U) \div 250), d),
                               st.pos.z + RDiv((st.pos.z - Max(a.minZ, Min(st.pos.z, a.maxZ)))
                                               * (radius - d + (3 * U) \div 250), d)),
                    moved |-> TRUE] :
                   d \in {Sqrt(d2)} }) :
        d2 \in {BoxDist2(st.pos, a)} })

RECURSIVE pushAll(_, _, _, _)
pushAll(st0, boxes, n, radius) ==
  The({ IF n > Len(boxes) THEN st
        ELSE pushAll(pushOut(st, boxes[n], radius), boxes, n + 1, radius) :
        st \in {st0} })

\* "for (let iter = 0; iter < 4; iter++) { ...; if (!moved) break; }"
RECURSIVE resolveIter(_, _, _, _)
resolveIter(pos, boxes, radius, iter) ==
  IF iter >= 4 THEN pos
  ELSE The({ IF st.moved THEN resolveIter(st.pos, boxes, radius, iter + 1) ELSE st.pos :
             st \in {pushAll([pos |-> pos, moved |-> FALSE], boxes, 1, radius)} })

\* resolveCircleAgainstBuildings(pos, radius): the position it leaves in pos
resolveCircleAgainstBuildings(g, pos, radius) ==
  resolveIter(pos, NearBoxes(g, pos), radius, 0)

isCircleOverlappingBuildings(g, pos, radius) ==
  \E n \in 1..Len(NearBoxes(g, pos)) :
    BoxDist2(pos, NearBoxes(g, pos)[n]) < radius * radius

\* the positions queried: the origin of a tile, and for the first building of
\* a loaded tile a point on the west edge of its obstacle box and points 0.5 m
\* and 2 m east of the box
QueryPoints(g) ==
  { Pt(k[1] * TileLen, k[2] * TileLen) : k \in GenTiles }
  \cup UNION { { Pt(b.minX, (b.minZ + b.maxZ) \div 2),
                 Pt(b.maxX + U \div 2, (b.minZ + b.maxZ) \div 2),
                 Pt(b.maxX + 2 * U, (b.minZ + b.maxZ) \div 2) } :
               b \in UNION { IF g[k] # NoChunk /\ Len(g[k].buildings) > 0
                             THEN {ObstacleBoxes(g, k)[1]} ELSE {} : k \in GenTiles } }
\* the radii: the 0.48 of the agents, 1 m, and a zero and a negative one
QueryRadii == { (12 * U) \div 25, U, 0, -U }

\* a caller makes both queries with the same arguments
Query(pos, radius) ==
  /\ qry' = [pos |-> pos, radius |-> radius,
             out |-> resolveCircleAgainstBuildings(gen, pos, radius),
             hit |-> isCircleOverlappingBuildings(gen, pos, radius)]
  /\ UNCHANGED <<zin, zout, worldVars, genVars, npcVars>>

\* ---- the Sim tier ----

\* The callback App hands to update, (pos, r) => resolveCircleAgainstBuildings
\* with r = 0.48.  Every obstacle box is a footprint grown by 0.55 inside a
\* lot, and the lots start lotSetback from the tile axes: a circle of radius
\* 0.48 centred on walkable ground reaches none and stays where it is.  The
\* callback is only ever applied to a position just projected.
resolveCollision(q) == IF WorldLegal(q) THEN q ELSE NoPoint

\* "Avoid overlapping the player (cheap separation push)", minR = 0.95
pushFromPlayer(q, p) ==
  IF Dist2(q, p) > 0 /\ Dist2(q, p) < ((19 * U) \div 20) * ((19 * U) \div 20)
  THEN The({ Pt(q.x + RDiv((q.x - p.x) * ((19 * U) \div 20 - d), d),
                q.z + RDiv((q.z - p.z) * ((19 * U) \div 20 - d), d)) :
             d \in {Sqrt(Dist2(q, p))} })
  ELSE q

\* spawnSimNPC(around) for slot i
spawnSimNPC(around, v, i) ==
  The({ withPlan([pos |-> q, target |-> Pt(0, 0), way |-> << >>, plan |-> << >>,
                  mode |-> "walk",
                  idleLeft |-> 0, phonePauseLeft |-> 0, fade |-> 0,
                  moveRampLeft |-> SIM_MOVE_RAMP_SEC,
                  speed |-> (8 * U) \div 5 + (rand(v, Site(i, 2)) * 6 * U) \div 500,
                  behavior |-> IF rand(v, Site(i, 3)) < 18 THEN "runner"
                               ELSE IF rand(v, Site(i, 4)) < 36 THEN "phone" ELSE "normal",
                  obeyTraffic |-> rand(v, Site(i, 5)) < 35,
                  did |-> "spawn", stop |-> "none", light |-> "off"],
                 planWalkChain(q, around, NPC_SIM_RADIUS, v, Site(i, 6))) :
        q \in {sampleWalkableInRing(around, 8 * U, NPC_SIM_RADIUS, v, Site(i, 0))} })

\* a plausible slip: "if" for "while", one agent spawned per update
ensureSimOne(s, around, v) ==
  IF Len(s) < NPC_SIM_MAX THEN Append(s, spawnSimNPC(around, v, Len(s) + 1)) ELSE s

\* while (this.sim.length < max) this.sim.push(this.spawnSimNPC(playerPos))
ensureSimPopulation(s, around, v) ==
  [ i \in 1..Max(Len(s), NPC_SIM_MAX) |->
      IF i <= Len(s) THEN s[i] ELSE spawnSimNPC(around, v, i) ]

\* updateSim, "Keep sim around player": the recycled agent is put on a raw
\* point of the ring
simRecycle(n, p, v, i) ==
  IF Dist2(n.pos, p) > (NPC_SIM_RADIUS * NPC_SIM_RADIUS * 18) \div 10
  THEN The({ withPlan([n EXCEPT !.pos = q, !.fade = 0,
                                !.moveRampLeft = SIM_MOVE_RAMP_SEC, !.did = "recycle",
                                !.stop = "none"],
                      planWalkChain(q, p, NPC_SIM_RADIUS, v, Site(i, 6))) :
             q \in {randomPointInRing(p, 6 * U, NPC_SIM_RADIUS, v, Site(i, 32))} })
  ELSE n

\* the idle branch reaches "continue": the agent waits at a red light
waitsAtRed(n, xGreen) ==
  /\ n.mode = "idle"
  /\ n.obeyTraffic
  /\ n.way # << >>
  /\ isCrosswalkEntry(n.target, n.way[1]) # "none"
  /\ ~canPedCross(isCrosswalkEntry(n.target, n.way[1]), xGreen)

\* the idle branch up to "continue": nothing after it runs for this agent
simWait(n, dt) ==
  [n EXCEPT !.idleLeft = Max(n.idleLeft - dt, (12 * T) \div 100),
            !.phonePauseLeft = Max(0, n.phonePauseLeft - dt),
            !.stop = isCrosswalkEntry(n.target, n.way[1]),
            !.did = IF n.did = "recycle" THEN "recycle+wait" ELSE "wait"]

\* the idle branch when it does not wait
simIdle(n, dt, p, v, i) ==
  IF n.mode # "idle" THEN n
  ELSE IF n.idleLeft - dt > 0
  THEN [n EXCEPT !.idleLeft = n.idleLeft - dt,
                 !.phonePauseLeft = Max(0, n.phonePauseLeft - dt)]
  ELSE IF n.phonePauseLeft - dt > 0
  THEN [n EXCEPT !.idleLeft = n.idleLeft - dt,
                 !.phonePauseLeft = n.phonePauseLeft - dt, !.mode = "walk"]
  ELSE withPlan([n EXCEPT !.idleLeft = n.idleLeft - dt, !.phonePauseLeft = 0,
                          !.mode = "walk"],
                planWalkChain(n.pos, p, NPC_SIM_RADIUS, v, Site(i, 6)))

\* walk branch, "Phone-type NPC: occasionally pause"
phonePause(n, d2, dt, v, i) ==
  IF /\ n.behavior = "phone"
     /\ n.phonePauseLeft <= 0
     /\ d2 > ((3 * U) \div 5) * ((3 * U) \div 5)
     /\ rand(v, Site(i, 36)) * T < dt
  THEN The({ [n EXCEPT !.phonePauseLeft = pl, !.mode = "idle", !.idleLeft = pl] :
             pl \in {(45 * T) \div 100 + (rand(v, Site(i, 37)) * 9 * T) \div 1000} })
  ELSE n

\* walk branch, "Traffic light: stop at crosswalk entry when red"
trafficStop(n, d2, xGreen) ==
  IF /\ n.obeyTraffic
     /\ n.way # << >>
     /\ isCrosswalkEntry(n.target, n.way[1]) # "none"
     /\ d2 < ((5 * U) \div 4) * ((5 * U) \div 4)
     /\ ~canPedCross(isCrosswalkEntry(n.target, n.way[1]), xGreen)
  THEN [n EXCEPT !.mode = "idle", !.idleLeft = Max(n.idleLeft, (12 * T) \div 100),
                 !.stop = isCrosswalkEntry(n.target, n.way[1])]
  ELSE n

\* walk branch, "if (dist < 0.7) ... else ...": arrive or step
simStep(n, d2, dt, p, v, i) ==
  IF d2 < ((7 * U) \div 10) * ((7 * U) \div 10)
  THEN IF n.way # << >>
       THEN [n EXCEPT !.target = n.way[1], !.way = Tail(n.way)]
       ELSE IF rand(v, Site(i, 34)) < 28
       THEN [n EXCEPT !.mode = "idle",
                      !.idleLeft = (8 * T) \div 10 + (rand(v, Site(i, 35)) * 22 * T) \div 1000]
       ELSE withPlan(n, planWalkChain(n.pos, p, NPC_SIM_RADIUS, v, Site(i, 6)))
  ELSE The({ [n EXCEPT !.pos = Pt(n.pos.x + RDiv((n.target.x - n.pos.x) * step, Sqrt(d2)),
                                  n.pos.z + RDiv((n.target.z - n.pos.z) * step, Sqrt(d2)))] :
             step \in { IF n.phonePauseLeft > 0 THEN 0
                        ELSE RDiv(n.speed
                                  * (IF n.behavior = "runner" THEN 170
                                     ELSE IF n.behavior = "phone" THEN 72 ELSE 100)
                                  * (1000 - clamp((n.moveRampLeft * 1000) \div SIM_MOVE_RAMP_SEC,
                                                  0, 1000))
                                  * dt,
                                  100 * 1000 * T) } })

simWalk(n, dt, p, v, i, xGreen) ==
  IF n.mode # "walk" THEN n
  ELSE The({ The({ The({ simStep(n2, d2, dt, p, v, i) :
                         n2 \in {trafficStop(n1, d2, xGreen)} }) :
                   n1 \in {phonePause(n, d2, dt, v, i)} }) :
             d2 \in {Dist2(n.target, n.pos)} })

\* the block after the branches: projection, obstacles, separation from the
\* player, then the ramp and animateSim's fade
simSettle(n, dt, p) ==
  The({ [n EXCEPT !.pos = pushFromPlayer(q, p),
                  !.moveRampLeft = Max(0, n.moveRampLeft - dt),
                  !.fade = Min(SIM_FADE_IN_SEC, n.fade + Min((5 * T) \div 100, Max(0, dt)))] :
        q \in {resolveCollision(projectToWalkable(n.pos.x, n.pos.z))} })

\* the agent walks within 1.25 m of a crosswalk entry it is heading for
atEntry(n) ==
  /\ n.mode = "walk"
  /\ n.way # << >>
  /\ isCrosswalkEntry(n.target, n.way[1]) # "none"
  /\ Dist2(n.target, n.pos) < ((5 * U) \div 4) * ((5 * U) \div 4)

\* history: stop is the axis of the crossing the agent was stopped or kept
\* waiting for by this pass, light the value of trafficCarsXGreen the pass
\* read ("X" cars X green, "Z" not) for an agent that obeys the lights and was
\* stopped by the pass before or is at an entry
watched(n, xGreen) ==
  [n EXCEPT !.stop = "none",
            !.light = IF n.obeyTraffic /\ (n.stop # "none" \/ atEntry(n))
                      THEN (IF xGreen THEN "X" ELSE "Z") ELSE "off"]

\* one pass of "for (const npc of this.sim)"
updateSimOne(n0, dt, p, v, i, xGreen) ==
  The({ IF waitsAtRed(n1, xGreen) THEN simWait(n1, dt)
        ELSE The({ The({ simSettle(n3, dt, p) :
                         n3 \in {simWalk(n2, dt, p, v, i, xGreen)} }) :
                   n2 \in {simIdle(n1, dt, p, v, i)} }) :
        n1 \in {simRecycle(watched(n0, xGreen), p, v, i)} })

updateSim(s, dt, p, v, xGreen) ==
  [ i \in 1..Len(s) |-> updateSimOne(s[i], dt, p, v, i, xGreen) ]

\* ---- the thin tiers (Crowd and Fake) ----

desiredCount(tier) == IF tier = "crowd" THEN crowdMax ELSE NPC_FAKE_MAX
ringMin(tier) == IF tier = "fake" THEN NPC_CROWD_RADIUS + 12 * U ELSE NPC_SIM_RADIUS + 2 * U
ringMax(tier) == IF tier = "fake" THEN NPC_FAKE_RADIUS ELSE NPC_CROWD_RADIUS
\* the sites of the calls of rand() made for instance i of a tier
ThinSite(tier, i, j) == Site(i, j) + (IF tier = "crowd" THEN 13 ELSE 27)

\* writeThinBuffers: the alpha written to the colour buffer, in thousandths
writeThinBuffers(g, tier, p) ==
  [g EXCEPT !.wrote = TRUE, !.a = [ i \in 1..Len(g.a) |->
     [g.a[i] EXCEPT !.alpha =
        ((IF tier = "crowd" THEN 1000
          ELSE clamp(((Sqrt(Dist2(g.a[i].pos, p)) - (NPC_CROWD_RADIUS + 10 * U)) * 1000)
                       \div (14 * U), 0, 1000))
         * g.a[i].fadeMul) \div 1000] ]]

ensureThinPopulation(g, tier, p, v) ==
  IF g.count = desiredCount(tier) THEN g
  ELSE writeThinBuffers(
         [g EXCEPT !.count = desiredCount(tier),
                   !.a = [ i \in 1..desiredCount(tier) |->
                     [pos |-> The({ projectToWalkable(q.x, q.z) :
                                    q \in {sampleWalkableInRing(p, ringMin(tier), ringMax(tier),
                                                                v, ThinSite(tier, i, 0))} }),
                      yaw |-> randAngle(rand(v, ThinSite(tier, i, 2))),
                      speed |-> IF tier = "crowd"
                                THEN (11 * U) \div 10 + (rand(v, ThinSite(tier, i, 3)) * 4 * U) \div 500
                                ELSE 0,
                      fadeMul |-> 1000, fadeOutLeft |-> 0, suppressLeft |-> 0, lockLeft |-> 0,
                      alpha |-> 0, did |-> "spawn"] ]],
         tier, p)

\* a plausible slip: the branch of a suppressed instance without its "else",
\* so that the fade-in also runs while the instance is suppressed
thinFadeNoElse(c, tier, dt, p, v, i) ==
  The({ IF c.fadeOutLeft > 0
        THEN IF c.fadeOutLeft - dt <= 0
             THEN [c EXCEPT !.fadeOutLeft = c.fadeOutLeft - dt, !.fadeMul = 0, !.lockLeft = 0,
                            !.suppressLeft = CROWD_SUPPRESS_SEC, !.did = "suppress"]
             ELSE [c EXCEPT !.fadeOutLeft = c.fadeOutLeft - dt, !.lockLeft = lk,
                            !.fadeMul = clamp(((c.fadeOutLeft - dt) * 1000) \div CROWD_FADE_OUT_SEC,
                                              0, 1000),
                            !.did = "fade"]
        ELSE IF c.suppressLeft > 0 /\ c.suppressLeft - dt <= 0
        THEN [c EXCEPT !.suppressLeft = c.suppressLeft - dt,
                       !.pos = sampleWalkableInRing(p, ringMin(tier), ringMax(tier), v,
                                                    ThinSite(tier, i, 4)),
                       !.yaw = randAngle(rand(v, ThinSite(tier, i, 6))),
                       !.fadeMul = 0, !.lockLeft = 0, !.did = "respawn"]
        ELSE [c EXCEPT !.suppressLeft = IF c.suppressLeft > 0 THEN c.suppressLeft - dt
                                        ELSE c.suppressLeft,
                       !.lockLeft = lk,
                       !.fadeMul = clamp(c.fadeMul + (dt * 35) \div 3, 0, 1000)] :
        lk \in {IF c.lockLeft > 0 THEN Max(0, c.lockLeft - dt) ELSE c.lockLeft} })

\* updateThin, first loop: the timers and the fade of instance i
thinFade(c, tier, dt, p, v, i) ==
  The({ IF c.fadeOutLeft > 0
        THEN IF c.fadeOutLeft - dt <= 0
             THEN [c EXCEPT !.fadeOutLeft = c.fadeOutLeft - dt, !.fadeMul = 0, !.lockLeft = 0,
                            !.suppressLeft = CROWD_SUPPRESS_SEC, !.did = "suppress"]
             ELSE [c EXCEPT !.fadeOutLeft = c.fadeOutLeft - dt, !.lockLeft = lk,
                            !.fadeMul = clamp(((c.fadeOutLeft - dt) * 1000) \div CROWD_FADE_OUT_SEC,
                                              0, 1000),
                            !.did = "fade"]
        ELSE IF c.suppressLeft > 0
        THEN IF c.suppressLeft - dt <= 0
             THEN [c EXCEPT !.suppressLeft = c.suppressLeft - dt,
                            !.pos = sampleWalkableInRing(p, ringMin(tier), ringMax(tier), v,
                                                         ThinSite(tier, i, 4)),
                            !.yaw = randAngle(rand(v, ThinSite(tier, i, 6))),
                            !.fadeMul = 0, !.lockLeft = 0, !.did = "respawn"]
             ELSE [c EXCEPT !.suppressLeft = c.suppressLeft - dt, !.lockLeft = lk]
        ELSE [c EXCEPT !.lockLeft = lk,
                       !.fadeMul = clamp(c.fadeMul + (dt * 35) \div 3, 0, 1000)] :
        lk \in {IF c.lockLeft > 0 THEN Max(0, c.lockLeft - dt) ELSE c.lockLeft} })

\* updateThin, the refresh of Fake instance i
fakeRefresh(c0, dt, p, v, i) ==
  The({ IF Dist2(c.pos, p) > ringMax("fake") * ringMax("fake")
           \/ Dist2(c.pos, p) < ringMin("fake") * ringMin("fake")
        THEN [c EXCEPT !.pos = sampleWalkableInRing(p, ringMin("fake"), ringMax("fake"), v,
                                                    ThinSite("fake", i, 7)),
                       !.yaw = randAngle(rand(v, ThinSite("fake", i, 9))),
                       !.did = "refresh"]
        ELSE c :
        c \in {[c0 EXCEPT !.lockLeft = IF c0.lockLeft > 0 THEN Max(0, c0.lockLeft - dt)
                                       ELSE c0.lockLeft]} })

\* the heading after the jitter and the turn away from the player
crowdYaw(c, p, v, i, repel) ==
  The({ IF repel > 0
        THEN The({ (yaw + RDiv(delta * (350 + (450 * repel) \div 1000), 1000)) % 16 :
                   delta \in { The({ IF d0 > 8 THEN d0 - 16 ELSE IF d0 < -8 THEN d0 + 16 ELSE d0 :
                                     d0 \in {atan2(c.pos.x - p.x, c.pos.z - p.z) - yaw} }) } })
        ELSE yaw % 16 :
        yaw \in {c.yaw + RDiv((rand(v, ThinSite("crowd", i, 10)) - 50) * 35 * 2546,
                              100 * 100 * 1000)} })

\* a plausible slip: the logic step without the test of the lock timer
crowdStepNoLock(c0, dt, p, v, i) ==
  The({ IF c.suppressLeft > 0 THEN c
        ELSE IF Dist2(c.pos, p) > ((NPC_CROWD_RADIUS * NPC_CROWD_RADIUS) \div 100) * 196
        THEN [c EXCEPT !.pos = The({ projectToWalkable(q.x, q.z) :
                                     q \in {sampleWalkableInRing(p, ringMin("crowd"),
                                                                 ringMax("crowd"), v,
                                                                 ThinSite("crowd", i, 7))} }),
                       !.yaw = randAngle(rand(v, ThinSite("crowd", i, 9))),
                       !.did = "teleport"]
        ELSE The({ The({ The({ [c EXCEPT !.yaw = yaw,
                                         !.pos = projectToWalkable(
                                                   c.pos.x + RDiv(sin(yaw) * len, 1000),
                                                   c.pos.z + RDiv(cos(yaw) * len, 1000)),
                                         !.did = "move"] :
                               len \in {RDiv(c.speed * (1000 + (800 * repel) \div 1000)
                                             * CrowdLogicStep, 1000 * T)} }) :
                         yaw \in {crowdYaw(c, p, v, i, repel)} }) :
                   repel \in { The({ IF d < ringMin("crowd")
                                     THEN 1000 - (d * 1000) \div ringMin("crowd") ELSE 0 :
                                     d \in {Sqrt(Dist2(c.pos, p))} }) } }) :
        c \in {[c0 EXCEPT !.lockLeft = IF c0.lockLeft > 0 THEN Max(0, c0.lockLeft - dt)
                                       ELSE c0.lockLeft]} })

\* updateThin, one logic step of Crowd instance i
crowdStep(c0, dt, p, v, i) ==
  The({ IF c.suppressLeft > 0 THEN c
        ELSE IF c.lockLeft > 0
        THEN [c EXCEPT !.lockLeft = Max(0, c.lockLeft - CrowdLogicStep)]
        ELSE IF Dist2(c.pos, p) > ((NPC_CROWD_RADIUS * NPC_CROWD_RADIUS) \div 100) * 196
        THEN [c EXCEPT !.pos = The({ projectToWalkable(q.x, q.z) :
                                     q \in {sampleWalkableInRing(p, ringMin("crowd"),
                                                                 ringMax("crowd"), v,
                                                                 ThinSite("crowd", i, 7))} }),
                       !.yaw = randAngle(rand(v, ThinSite("crowd", i, 9))),
                       !.did = "teleport"]
        ELSE The({ The({ The({ [c EXCEPT !.yaw = yaw,
                                         !.pos = projectToWalkable(
                                                   c.pos.x + RDiv(sin(yaw) * len, 1000),
                                                   c.pos.z + RDiv(cos(yaw) * len, 1000)),
                                         !.did = "move"] :
                               len \in {RDiv(c.speed * (1000 + (800 * repel) \div 1000)
                                             * CrowdLogicStep, 1000 * T)} }) :
                         yaw \in {crowdYaw(c, p, v, i, repel)} }) :
                   repel \in { The({ IF d < ringMin("crowd")
                                     THEN 1000 - (d * 1000) \div ringMin("crowd") ELSE 0 :
                                     d \in {Sqrt(Dist2(c.pos, p))} }) } }) :
        c \in {[c0 EXCEPT !.lockLeft = IF c0.lockLeft > 0 THEN Max(0, c0.lockLeft - dt)
                                       ELSE c0.lockLeft]} })

RECURSIVE crowdSteps(_, _, _, _, _, _)
crowdSteps(c, steps, dt, p, v, i) ==
  IF steps = 0 THEN c ELSE crowdSteps(crowdStep(c, dt, p, v, i), steps - 1, dt, p, v, i)

updateThin(g0, tier, dt, p, v) ==
  The({ IF tier = "fake"
        THEN IF g.refreshAcc >= FakeRefreshStep
             THEN writeThinBuffers(
                    [g EXCEPT !.refreshAcc = 0,
                              !.a = [ i \in 1..g.count |-> fakeRefresh(g.a[i], dt, p, v, i) ]],
                    tier, p)
             ELSE g
        ELSE IF g.logicAcc < CrowdLogicStep THEN g
        ELSE The({ writeThinBuffers(
                     [g EXCEPT !.logicAcc = g.logicAcc - steps * CrowdLogicStep,
                               !.a = [ i \in 1..g.count |->
                                         crowdSteps(g.a[i], steps, dt, p, v, i) ]],
                     tier, p) :
                   steps \in {Min(2, g.logicAcc \div CrowdLogicStep)} }) :
        g \in {[g0 EXCEPT !.logicAcc = g0.logicAcc + dt,
                          !.refreshAcc = g0.refreshAcc + dt,
                          !.a = [ i \in 1..g0.count |-> thinFade(g0.a[i], tier, dt, p, v, i) ]]} })

\* ---- the handoff from Crowd to Sim ----

\* a plausible slip: the test of the fade-in left out
eligibleFresh(c) == c.suppressLeft <= 0 /\ c.fadeOutLeft <= 0

eligible(c) == c.suppressLeft <= 0 /\ c.fadeOutLeft <= 0 /\ c.fadeMul >= 50

\* a plausible slip: the reach of the handoff ends inside the Sim ring
inConvertRangeInside(c, p) ==
  Dist2(c.pos, p) < NPC_SIM_RADIUS * NPC_SIM_RADIUS

inConvertRange(c, p) ==
  Dist2(c.pos, p) <= (NPC_SIM_RADIUS + HANDOFF_DIST) * (NPC_SIM_RADIUS + HANDOFF_DIST)

isNearRoad(x, z) ==
  Abs(LocalOf(x)) <= (21 * U) \div 2 \/ Abs(LocalOf(z)) <= (21 * U) \div 2

\* pickCandidate: the index of the candidate kept by the loop, 0 for none
pickCandidate(h, p, preferRoad, requireSpacing) ==
  LET cand == { i \in 1..h.crowd.count :
                  /\ eligible(h.crowd.a[i])
                  /\ inConvertRange(h.crowd.a[i], p)
                  /\ (preferRoad => isNearRoad(h.crowd.a[i].pos.x, h.crowd.a[i].pos.z))
                  /\ (requireSpacing =>
                        \A j \in 1..Len(h.sim) :
                          Dist2(h.sim[j].pos, h.crowd.a[i].pos) >= ((6 * U) \div 5) * ((6 * U) \div 5)) }
      locked(i) == h.crowd.a[i].lockLeft > 0
      d2(i) == Dist2(h.crowd.a[i].pos, p)
      before(i, j) == \/ (locked(i) /\ ~locked(j))
                      \/ (locked(i) = locked(j) /\ d2(i) < d2(j))
                      \/ (locked(i) = locked(j) /\ d2(i) = d2(j) /\ i <= j)
  IN  IF cand = {} THEN 0 ELSE The({ i \in cand : \A j \in cand : before(i, j) })

\* the three passes
pickBest(h, p) ==
  IF pickCandidate(h, p, TRUE, TRUE) # 0 THEN pickCandidate(h, p, TRUE, TRUE)
  ELSE IF pickCandidate(h, p, TRUE, FALSE) # 0 THEN pickCandidate(h, p, TRUE, FALSE)
  ELSE pickCandidate(h, p, FALSE, FALSE)

\* a plausible slip: the comparison never succeeds and simIdx stays at the
\* first slot
farthestSimFirstSlot(s, p) == The({ j \in 1..Len(s) : j = 1 })

\* "pick farthest sim to recycle": the first slot at the greatest distance
farthestSim(s, p) ==
  The({ j \in 1..Len(s) : \A j2 \in 1..Len(s) :
          \/ Dist2(s[j].pos, p) > Dist2(s[j2].pos, p)
          \/ (Dist2(s[j].pos, p) = Dist2(s[j2].pos, p) /\ j <= j2) })

\* the body of the promotion loop: Crowd instance ci goes to Sim slot si;
\* n counts the promotions of this update.  promos is history: the instance,
\* the slot, the distances of the Sim agents to the player, their positions
\* and the Crowd instances as the selection found them
promoteOne(h, ci, si, p, v, n) ==
  The({ The({ [h EXCEPT
                 !.sim[si] = withPlan([h.sim[si] EXCEPT
                                         !.pos = q,
                                         !.speed = (7 * U) \div 5
                                                   + clamp(c.speed, (3 * U) \div 5, (11 * U) \div 5),
                                         !.mode = "walk", !.idleLeft = 0,
                                         !.moveRampLeft = SIM_MOVE_RAMP_SEC,
                                         !.fade = 0, !.did = "promote",
                                         !.stop = "none"],
                                      planWalkChain(q, p, NPC_SIM_RADIUS, v, Site(si, 6))),
                 !.crowd.a[ci].fadeOutLeft = CROWD_FADE_OUT_SEC,
                 !.crowd.a[ci].lockLeft = Max(c.lockLeft, CROWD_FADE_OUT_SEC + T \div 5),
                 !.from[si] = ci,
                 !.promos = Append(h.promos,
                                   <<ci, si, [ j \in 1..Len(h.sim) |->
                                                Dist2(h.sim[j].pos, p) ],
                                     [ j \in 1..Len(h.sim) |-> h.sim[j].pos ],
                                     h.crowd.a>>)] :
              q \in { The({ Pt(c.pos.x + RDiv(cos(c.yaw) * side - sin(c.yaw) * back, 1000),
                               c.pos.z + RDiv(-sin(c.yaw) * side - cos(c.yaw) * back, 1000)) :
                            back \in {U \div 5 + (rand(v, Site(n, 38)) * U) \div 500},
                            side \in {RDiv((rand(v, Site(n, 39)) - 50) * U, 400)} }) } }) :
        c \in {h.crowd.a[ci]} })

RECURSIVE promote(_, _, _, _, _)
promote(h0, left, p, v, n) ==
  The({ IF left <= 0 THEN h
        ELSE The({ IF best = 0 THEN h
                   ELSE promote(promoteOne(h, best, farthestSim(h.sim, p), p, v, n),
                                left - 1, p, v, n + 1) :
                   best \in {pickBest(h, p)} }) :
        h \in {h0} })

\* a plausible slip: the handoff step without the marking loop
tryHandoffNoMark(h, dt, p, v, speed) ==
  IF Len(h.sim) = 0 \/ h.crowd.count = 0 THEN h
  ELSE IF h.acc + dt < HandoffStep THEN [h EXCEPT !.acc = h.acc + dt]
  ELSE promote([h EXCEPT !.acc = h.acc + dt - HandoffStep],
               6 + (94 * clamp((speed * 1000) \div ((15 * U) \div 2), 0, 1000)) \div 1000,
               p, v, 1)

\* a plausible slip: the marking loop without the test of the distance
tryHandoffMarkAll(h, dt, p, v, speed) ==
  IF Len(h.sim) = 0 \/ h.crowd.count = 0 THEN h
  ELSE IF h.acc + dt < HandoffStep THEN [h EXCEPT !.acc = h.acc + dt]
  ELSE promote([h EXCEPT !.acc = h.acc + dt - HandoffStep,
                         !.crowd.a = [ i \in 1..h.crowd.count |->
                            IF eligible(h.crowd.a[i])
                            THEN [h.crowd.a[i] EXCEPT
                                    !.lockLeft = Max(h.crowd.a[i].lockLeft, (9 * T) \div 10)]
                            ELSE h.crowd.a[i] ]],
               6 + (94 * clamp((speed * 1000) \div ((15 * U) \div 2), 0, 1000)) \div 1000,
               p, v, 1)

\* h = [sim, crowd, acc, from, promos]; speed is playerSpeed
tryHandoffCrowdToSim(h, dt, p, v, speed) ==
  IF Len(h.sim) = 0 \/ h.crowd.count = 0 THEN h
  ELSE IF h.acc + dt < HandoffStep THEN [h EXCEPT !.acc = h.acc + dt]
  ELSE promote([h EXCEPT !.acc = h.acc + dt - HandoffStep,
                         !.crowd.a = [ i \in 1..h.crowd.count |->
                            IF eligible(h.crowd.a[i]) /\ inConvertRange(h.crowd.a[i], p)
                            THEN [h.crowd.a[i] EXCEPT
                                    !.lockLeft = Max(h.crowd.a[i].lockLeft, (9 * T) \div 10)]
                            ELSE h.crowd.a[i] ]],
               6 + (94 * clamp((speed * 1000) \div ((15 * U) \div 2), 0, 1000)) \div 1000,
               p, v, 1)

\* ---- NPCManager.update ----

\* wrote is history: the buffers were written during the last update
NoThin == [count |-> 0, logicAcc |-> 0, refreshAcc |-> 0, a |-> << >>, wrote |-> FALSE]

InitPools ==
  /\ sim = << >>
  /\ crowd = NoThin
  /\ fake = NoThin
  /\ handoffAcc = 0
  /\ lastPlayerPos = NoPoint
  /\ simFrom = [ j \in 1..NPC_SIM_MAX |-> 0 ]
  /\ promos = << >>
  /\ handoffLocks = << >>
  /\ shortFrames = 0
  /\ moves = 0
  /\ ticks = 0
InitNPC == InitPools /\ stream = 1 /\ crowdMax = NPC_CROWD_MAX

\* what the last update did to an agent is forgotten when the next begins
Forget(s) == [ i \in 1..Len(s) |-> [s[i] EXCEPT !.did = "none", !.plan = << >>] ]
ForgetThin(g) ==
  [g EXCEPT !.a = [ i \in 1..Len(g.a) |-> [g.a[i] EXCEPT !.did = "none"] ], !.wrote = FALSE]

\* update(dt, playerPos, resolveCollision) as the frame loop calls it (no
\* vehicle is passed); the draws of the update follow stream v and xGreen is
\* trafficCarsXGreen at the time of the call
NpcUpdate(dt, p, v, xGreen) ==
  /\ ticks < MaxTicks
  /\ (lastPlayerPos = NoPoint \/ p = lastPlayerPos \/ moves < MaxMoves)
  /\ \E h \in { tryHandoffCrowdToSim(
                  [sim |-> ensureSimPopulation(Forget(sim), p, v),
                   crowd |-> ensureThinPopulation(ForgetThin(crowd),
                                                  "crowd", p, v),
                   acc |-> handoffAcc, from |-> simFrom, promos |-> << >>],
                  dt, p, v,
                  IF lastPlayerPos = NoPoint THEN 0
                  ELSE (Sqrt(Dist2(p, lastPlayerPos)) * T) \div Max(1, dt)) } :
       \E c \in { updateThin(h.crowd, "crowd", dt, p, v) } :
         /\ sim' = updateSim(h.sim, dt, p, v, xGreen)
         /\ crowd' = c
         /\ fake' = updateThin(ensureThinPopulation(ForgetThin(fake),
                                                    "fake", p, v),
                               "fake", dt, p, v)
         /\ handoffAcc' = h.acc
         /\ simFrom' = [ j \in 1..NPC_SIM_MAX |->
                           IF /\ h.from[j] # 0
                              /\ h.crowd.a[h.from[j]].suppressLeft > 0
                              /\ c.a[h.from[j]].suppressLeft <= 0
                           THEN 0 ELSE h.from[j] ]
         /\ promos' = h.promos
         /\ handoffLocks' = [ i \in 1..h.crowd.count |-> h.crowd.a[i].lockLeft ]
  /\ lastPlayerPos' = p
  /\ moves' = IF lastPlayerPos = NoPoint \/ p = lastPlayerPos THEN moves ELSE moves + 1
  /\ shortFrames' = IF dt < T \div 15 THEN shortFrames + 1 ELSE shortFrames
  /\ ticks' = ticks + 1
  /\ UNCHANGED <<stream, crowdMax, worldVars, genVars, zoneVars>>

InitConfig ==
  /\ FAR_RADIUS = FAR_RADIUS_INIT
  /\ WINDOW_SKIP_FRONT = WINDOW_SKIP_FRONT_INIT
  /\ WINDOW_SKIP_SIDE = WINDOW_SKIP_SIDE_INIT
  /\ BUILDING_DETAIL_LOD_DIST = BUILDING_DETAIL_LOD_DIST_INIT
  /\ shifts = 0

InitWorld ==
  /\ InitConfig
  /\ loaded = << >>
  /\ chunks = {}
  /\ nextId = 1
  /\ obs = <<0, 0>>
  /\ lastR = FAR_RADIUS_INIT
  /\ created = {}
  /\ disposed = {}
  /\ prevLoaded = << >>
  /\ updates = 0
  /\ sigT = 0
  /\ signals = << >>
  /\ now = PageLoad

Init == InitWorld /\ InitGen /\ IdleZone /\ InitNPC

Next ==
  \/ \E p \in ObserverPositions :
       updates < MaxUpdates /\ Update(p[1], p[2], T \div 60)
  \/ QualityDown
  \/ QualityUp

Spec == Init /\ [][Next]_vars

\* the signal scheduler driven by the frame loop: the observer may change
\* tile during the first frames, the frames are short or long
NextSig ==
  \E p \in SigObserver, dt \in FrameDeltas :
    /\ updates < MaxFrames
    /\ (p = obs \/ updates < MaxSigMoves)
    /\ Update(p[1], p[2], dt)
SpecSig == Init /\ [][NextSig]_vars

\* the walkable projection applied to drawn positions
InitZoneSpec == InitWorld /\ InitGen /\ InitZone /\ InitNPC
NextZone == Project \/ Reproject
SpecZone == InitZoneSpec /\ [][NextZone]_vars

\* tiles generated, disposed and generated again while the quality shifts
InitGenSpec == InitWorld /\ InitGen /\ IdleZone /\ InitNPC
NextGen ==
  \/ \E k \in GenTiles : NewChunk(k)
  \/ \E k \in GenTiles : DisposeChunk(k)
  \/ QualityDown
  \/ QualityUp
SpecGen == InitGenSpec /\ [][NextGen]_vars

\* obstacle queries while tiles are loaded and disposed
NextQuery ==
  \/ \E k \in GenTiles : NewChunk(k)
  \/ \E k \in GenTiles : DisposeChunk(k)
  \/ \E pos \in QueryPoints(gen), radius \in QueryRadii : Query(pos, radius)
SpecQuery == InitGenSpec /\ [][NextQuery]_vars

\* the population engine driven by the frame loop, at 15 updates a second;
\* the last four streams are kept for the runs of SpecBusy, SpecUnlucky, SpecStep
\* and SpecPhone
NpcStreams == { v \in 1..Len(Streams) : v + 3 < Len(Streams) }
InitNpcSpec ==
  /\ InitWorld /\ InitGen /\ IdleZone
  /\ InitPools
  /\ stream \in NpcStreams
  /\ crowdMax = NPC_CROWD_MAX
NextNPC ==
  \E p \in PlayerPositions, xGreen \in BOOLEAN :
    NpcUpdate(T \div 15, p, stream, xGreen)
SpecNPC == InitNpcSpec /\ [][NextNPC]_vars

\* the handoff around a player who stands still 42 m from the sidewalk edges
\* east and west of them; getDeltaSeconds hands the frame loop 1/15 s, or
\* 1/30 s for a frame that was rendered in half the time
HandoffPlayer == Pt(-halfTile, 20 * U)
HandoffDeltas == { T \div 15, T \div 30 }
NextHandoff ==
  \E dt \in HandoffDeltas, xGreen \in BOOLEAN :
    /\ (dt = T \div 15 \/ shortFrames < MaxShort)
    /\ NpcUpdate(dt, HandoffPlayer, stream, xGreen)
SpecHandoff == InitNpcSpec /\ [][NextHandoff]_vars

\* the same player among a Crowd pool that puts more agents within reach of
\* the handoff than a tick promotes at low speed
InitBusy ==
  /\ InitWorld /\ InitGen /\ IdleZone
  /\ InitPools
  /\ stream = Len(Streams) - 3
  /\ crowdMax = CrowdBusy
SpecBusy == InitBusy /\ [][NextHandoff]_vars

\* the same player in a run whose generator returns, for the destination of
\* Sim 1, thirteen samples in a row that fall into crosswalks
InitUnlucky ==
  /\ InitWorld /\ InitGen /\ IdleZone
  /\ InitPools
  /\ stream = Len(Streams) - 2
  /\ crowdMax = NPC_CROWD_MAX
SpecUnlucky == InitUnlucky /\ [][NextHandoff]_vars

\* a player who stands at the same place or half a metre south of it and takes
\* the step between the two at sprinting speed, in a run in which Crowd
\* instance 2 stands 48.4 m from the first place and 48 m from the second
\* and instance 1 respawns 42 m west of the player
StepPositions == { HandoffPlayer, Pt(HandoffPlayer.x, HandoffPlayer.z - U \div 2) }
InitStep ==
  /\ InitWorld /\ InitGen /\ IdleZone
  /\ InitPools
  /\ stream = Len(Streams) - 1
  /\ crowdMax = NPC_CROWD_MAX
NextStep ==
  \E dt \in HandoffDeltas, p \in StepPositions, xGreen \in BOOLEAN :
    /\ (dt = T \div 15 \/ shortFrames < MaxShort)
    /\ NpcUpdate(dt, p, stream, xGreen)
SpecStep == InitStep /\ [][NextStep]_vars

\* the player of SpecNPC in a run in which Sim 1 is a phone type that draws a
\* phone pause whenever it may
InitPhone ==
  /\ InitWorld /\ InitGen /\ IdleZone
  /\ InitPools
  /\ stream = Len(Streams)
  /\ crowdMax = NPC_CROWD_MAX
SpecPhone == InitPhone /\ [][NextNPC]_vars

\* a player who may be found 60 m further east at an update (a fast vehicle
\* over a few frames, taken as one step); the lights follow the clock of the
\* frames
DriftPositions == { Pt(30 * U, (19 * U) \div 2), Pt(90 * U, (19 * U) \div 2) }
NextDrift ==
  \E p \in DriftPositions :
    NpcUpdate(T \div 15, p, stream, trafficCarsXGreen(ticks * (T \div 15)))
SpecDrift == InitNpcSpec /\ [][NextDrift]_vars

\* the Sim tier of the frames of a run without thin pools, around a player
\* who stands still on the west sidewalk of the north-south road: every
\* frame calls update, which fills the Sim pool and runs updateSim; the
\* handoff finds no Crowd agent and the accumulators of the empty pools,
\* which no Sim agent reads, are left out.  updateSim reads performance.now()
\* for the pedestrian lights only, so the time of the frame is kept modulo
\* their period of 16 s.  The frames never stop coming: the time keeps
\* advancing.
WalkPlayer == Pt(-6 * U, (61 * U) \div 2)
LightPeriod == 16 * T
SimFrame(dt, p, v) ==
  /\ (lastPlayerPos = NoPoint \/ p = lastPlayerPos)
  /\ now' = (now + dt) % LightPeriod
  /\ sim' = updateSim(ensureSimPopulation(Forget(sim), p, v), dt, p, v,
                      trafficCarsXGreen(now + dt))
  /\ lastPlayerPos' = p
  /\ UNCHANGED <<crowd, fake, handoffAcc, simFrom, promos, handoffLocks, shortFrames,
                 moves, stream, crowdMax, ticks, cfgVars, streamVars, sigT, signals,
                 genVars, zoneVars>>
InitWalk ==
  /\ InitWorld /\ InitGen /\ IdleZone
  /\ InitPools
  /\ stream = 2
  /\ crowdMax = 0
NextWalk == SimFrame(T \div 15, WalkPlayer, stream)
SpecWalk ==
  InitWalk /\ [][NextWalk]_vars /\ WF_now(now' = (now + T \div 15) % LightPeriod)

----------------------------------------------------------------------------
(* Claims about the tile streamer *)

TileRange == -6..6

\* the tile whose square [c*64, (c+1)*64) holds the coordinate p
TileHolding(p) == CHOOSE c \in TileRange : c * CHUNK_SIZE <= p /\ p < (c + 1) * CHUNK_SIZE

Chebyshev(k, cx, cz) == Max(Abs(k[1] - cx), Abs(k[2] - cz))

ObjectsAt(k) == { c \in chunks : c.cx = k[1] /\ c.cz = k[2] }

C2_KeepsSurvivors ==
  [][ updates' = updates + 1 =>
        /\ \A k \in DOMAIN loaded \cap DOMAIN loaded' :
              /\ loaded'[k] = loaded[k]
              /\ loaded[k] \notin disposed'
              /\ loaded'[k] \notin created'
        /\ (obs' = <<0, 0>> /\ lastR' = 2) => Cardinality(DOMAIN loaded') = 25
        /\ (updates > 0 /\ obs = <<0, 0>> /\ lastR = 2 /\ obs' = <<64, 0>> /\ lastR' = 2) =>
              /\ disposed' = { loaded[k] : k \in { q \in DOMAIN loaded : q[1] = -2 } }
              /\ Cardinality(disposed') = 5
              /\ created' = { loaded'[k] : k \in { q \in DOMAIN loaded' : q[1] = 3 } }
              /\ Cardinality(created') = 5
              /\ Cardinality({ k \in DOMAIN loaded \cap DOMAIN loaded' :
                                 loaded'[k] = loaded[k] }) = 20
              /\ { c \in chunks : c.id \notin disposed' } = { c \in chunks' : c.id \notin created' }
    ]_vars

\* the scenario's second update has happened
C2_Witness ==
  /\ updates >= 2
  /\ lastR = 2
  /\ obs = <<64, 0>>
  /\ DOMAIN prevLoaded = (-2..2) \X (-2..2)
  /\ Cardinality(created) = 5
  /\ Cardinality(disposed) = 5

----------------------------------------------------------------------------
(* Claims about the tile generator *)

\* C3: the buildings of a tile (their number, positions and footprints) are
\* those of the first Chunk ever made for its coordinate, however often the
\* tile was disposed and made again, whichever other tiles were made or
\* disposed meanwhile and whatever the window-density settings had become.
C3_ContentOfCoordinate ==
  \A k \in GenTiles :
    gen[k] # NoChunk => gen[k].buildings = firstGen[k].buildings

\* a tile made again under other window settings (its window count differs
\* from the first time), another tile having been made and disposed
C3_Witness ==
  \E k \in GenTiles, k2 \in GenTiles :
    /\ k2 # k
    /\ gen[k] # NoChunk
    /\ Len(gen[k].buildings) > 0
    /\ gen[k].windows # firstGen[k].windows
    /\ firstGen[k2] # NoChunk
    /\ gen[k2] = NoChunk

----------------------------------------------------------------------------
(* Walkable zones and projection *)

\* The zone regions the code derives from the tile constants, each shrunk by
\* m length units (m = 0: the closed region, m = 1: its interior; every region
\* boundary is a whole number of units).  The crosswalk rectangles are carved
\* out of the road corridors.
InSidewalkZone(lx, lz, m) ==
  \E i \in 1..Len(SidewalkRects) :
    LET r == SidewalkRects[i]
    IN  /\ lx >= r.minX + m /\ lx <= r.maxX - m
        /\ lz >= r.minZ + m /\ lz <= r.maxZ - m
InCrosswalkZone(lx, lz, m) ==
  \E i \in 1..Len(CrosswalkRects) :
    LET r == CrosswalkRects[i]
    IN  /\ lx >= r.minX + m /\ lx <= r.maxX - m
        /\ lz >= r.minZ + m /\ lz <= r.maxZ - m
InRoadZone(lx, lz, m) ==
  /\ (Abs(lz) <= roadW \div 2 - m \/ Abs(lx) <= roadW \div 2 - m)
  /\ ~isInCrosswalkLocal(lx, lz)
InLotZone(lx, lz, m) ==
  /\ Abs(lx) >= lotSetback + m /\ Abs(lx) <= lotMax - m
  /\ Abs(lz) >= lotSetback + m /\ Abs(lz) <= lotMax - m

ZonesAt(lx, lz, m) ==
  { zn \in {"Road", "Sidewalk", "Crosswalk", "BuildableLot"} :
      \/ zn = "Road" /\ InRoadZone(lx, lz, m)
      \/ zn = "Sidewalk" /\ InSidewalkZone(lx, lz, m)
      \/ zn = "Crosswalk" /\ InCrosswalkZone(lx, lz, m)
      \/ zn = "BuildableLot" /\ InLotZone(lx, lz, m) }

\* a position the projection accepts as it is
AcceptedLocal(lx, lz) == \E i \in 1..Len(rects) : InRect(lx, lz, rects[i])

\* C9: every ground position lies in the interior of at most one of the
\* zones Road, Sidewalk, Crosswalk and BuildableLot (the regions are
\* mutually exclusive except on shared boundaries), and the positions legal
\* for pedestrians are exactly those of Sidewalk and Crosswalk.
C9_ZonesPartition ==
  LET lx == LocalOf(zin.x)
      lz == LocalOf(zin.z)
  IN  /\ Cardinality(ZonesAt(lx, lz, 1)) <= 1
      /\ AcceptedLocal(lx, lz) <=>
           (ZonesAt(lx, lz, 0) \cap {"Sidewalk", "Crosswalk"} # {})

\* The nearest point of a union of axis-parallel rectangles to p has, on each
\* axis, either p's coordinate or the coordinate of a rectangle edge: these
\* are the edge coordinates of the tile of p and of its neighbours.
ZoneEdges ==
  LET e == { halfRoad, halfRoad + SIDEWALK_W,
             CROSSWALK_OFFSET - cwHalf, CROSSWALK_OFFSET + cwHalf, halfTile }
  IN  e \cup { -v : v \in e }
CandCoords(v) ==
  {v} \cup { t * TileLen + e : t \in (RoundTile(v) - 1)..(RoundTile(v) + 1),
                               e \in ZoneEdges }

\* C10: the projection of any position (on tile and zone boundaries too) is
\* pedestrian-legal and no pedestrian-legal point of the world is nearer to
\* the position than it.
C10_NearestLegal ==
  zout # NoPoint =>
    /\ WorldLegal(zout)
    /\ \A x \in CandCoords(zin.x), z \in CandCoords(zin.z) :
         WorldLegal(Pt(x, z)) => Dist2(zin, zout) <= Dist2(zin, Pt(x, z))

\* an illegal position exactly on a tile boundary has been projected
C10_Witness ==
  /\ zout # NoPoint
  /\ zin.x = halfTile
  /\ ~WorldLegal(zin)
  /\ zout # zin

\* C11: the projection is idempotent and is the identity on legal points:
\* projecting a result of the projection again returns it unchanged, and a
\* position already in a sidewalk band or a crosswalk rectangle is returned
\* as it is.
C11_ProjectionIdempotent ==
  zout # NoPoint =>
    /\ projectToWalkable(zout.x, zout.z) = zout
    /\ (\/ InSidewalkZone(LocalOf(zin.x), LocalOf(zin.z), 0)
        \/ InCrosswalkZone(LocalOf(zin.x), LocalOf(zin.z), 0)) => zout = zin

\* a position on the edge of a sidewalk band beside the middle of a junction
\* (where the projection puts the middle of the junction) has been projected
\* and returned as it is
C11_Witness ==
  /\ zout # NoPoint
  /\ zout = zin
  /\ LocalOf(zin.x) = 0
  /\ Abs(LocalOf(zin.z)) = halfRoad
  /\ zin.x >= TileLen

\* C4: after every update every Sim agent stands on pedestrian-legal ground
\* (a sidewalk band or a crosswalk rectangle), never on the road or in a lot.
C4_SimOnWalkable ==
  ticks > 0 => \A j \in 1..Len(sim) : WorldLegal(sim[j].pos)

\* C5: after every update every Crowd instance and every Fake instance
\* stands on pedestrian-legal ground: after the initial placement, a Crowd
\* movement step, a teleport and the respawn that ends a suppression.
C5_ThinOnWalkable ==
  ticks > 0 =>
    /\ \A i \in 1..Len(crowd.a) : WorldLegal(crowd.a[i].pos)
    /\ \A i \in 1..Len(fake.a) : WorldLegal(fake.a[i].pos)
C5_Witness ==
  \E i \in 1..Len(crowd.a) :
    crowd.a[i].did = "respawn" /\ WorldLegal(crowd.a[i].pos)

\* C6: an agent is owned by one tier at a time.  The promotions of one
\* update take distinct Crowd instances into distinct Sim slots, no Crowd
\* instance is the origin of two Sim slots, and a Crowd instance that is
\* fading out or suppressed is the origin of a Sim slot (its agent was not
\* dropped).
C6_OwnedByOneTier ==
  /\ \A a, b \in 1..Len(promos) :
       a # b => promos[a][1] # promos[b][1] /\ promos[a][2] # promos[b][2]
  /\ \A i \in 1..Len(crowd.a) :
       /\ Cardinality({ j \in 1..NPC_SIM_MAX : simFrom[j] = i }) <= 1
       /\ (crowd.a[i].fadeOutLeft > 0 \/ crowd.a[i].suppressLeft > 0)
            => \E j \in 1..NPC_SIM_MAX : simFrom[j] = i

C8_PoolsFull ==
  ticks > 0 =>
    /\ Len(sim) = NPC_SIM_MAX
    /\ crowd.count = NPC_CROWD_MAX /\ Len(crowd.a) = NPC_CROWD_MAX
    /\ fake.count = NPC_FAKE_MAX /\ Len(fake.a) = NPC_FAKE_MAX
C8_Witness ==
  /\ ticks > 1
  /\ promos # << >>
  /\ Len(sim) = NPC_SIM_MAX
  /\ crowd.count = NPC_CROWD_MAX
  /\ fake.count = NPC_FAKE_MAX

----------------------------------------------------------------------------
(* Claims about the signal scheduler *)

\* the lamps a signal of a phase group shows at clock value t
GroupLamp(tag, t) ==
  lampAt([phase |-> tag, red |-> FALSE, yellow |-> FALSE, green |-> FALSE], t)
Colour(s) == IF s.green THEN "green" ELSE IF s.yellow THEN "yellow" ELSE "red"
NextColour(c) == IF c = "green" THEN "yellow" ELSE IF c = "yellow" THEN "red" ELSE "green"

\* the stages of the cycle that hold at clock value t, by the lamps shown
StagesAt(t) ==
  { st \in {"NSGreen", "NSYellow", "EWGreen", "EWYellow", "allRed"} :
      \/ st = "NSGreen" /\ GroupLamp("NS", t).green
      \/ st = "NSYellow" /\ GroupLamp("NS", t).yellow
      \/ st = "EWGreen" /\ GroupLamp("EW", t).green
      \/ st = "EWYellow" /\ GroupLamp("EW", t).yellow
      \/ st = "allRed" /\ Colour(GroupLamp("NS", t)) = "red"
                       /\ Colour(GroupLamp("EW", t)) = "red" }

\* C12 (as stated): at any value of the global signal clock exactly one of
\* NS green, EW green and all-red holds.
C12_ExactlyOneOfThree ==
  Cardinality(StagesAt(sigT) \cap {"NSGreen", "EWGreen", "allRed"}) = 1

\* C12 (amended): at any value of the global signal clock exactly one of
\* NS green, NS yellow, EW green, EW yellow and all-red holds.
C12_ExactlyOneOfFive == Cardinality(StagesAt(sigT)) = 1

\* the clock stands in the NS-yellow stage after an update
C12_Witness ==
  /\ updates > 0
  /\ inNSYellow(sigT)
  /\ StagesAt(sigT) = {"NSYellow"}

\* C13: at every time the pedestrian crossing legality of the two axes is
\* complementary: canPedCrossNS(t) = not canPedCrossEW(t), never both true.
C13_Complementary ==
  /\ canPedCross("NS", trafficCarsXGreen(now)) = ~canPedCross("EW", trafficCarsXGreen(now))
  /\ ~(canPedCross("NS", trafficCarsXGreen(now)) /\ canPedCross("EW", trafficCarsXGreen(now)))

\* a frame in the second half of the 16 s cycle: the N-S crossing is legal
C13_Witness ==
  /\ updates > 0
  /\ now % (16 * T) >= 8 * T
  /\ canPedCross("NS", trafficCarsXGreen(now))
  /\ ~canPedCross("EW", trafficCarsXGreen(now))

\* C14: whenever the population engine allows a crossing on an axis (the
\* gate a traffic-obedient Sim agent reads in the frame), the scheduler's
\* lamps for the conflicting vehicle flow are not green at that moment.  The
\* conflicting flow of a crossing is the phase group of its axis ("NS
\* crossing legal exactly when cars-on-NS-road are not green").
C14_GatedByScheduler ==
  updates > 0 =>
    \A axis \in {"NS", "EW"} :
      canPedCross(axis, trafficCarsXGreen(now)) => ~GroupLamp(axis, sigT).green

\* C15: at the end of every update all registered signals with the same
\* phase-group tag show the same lamp, the signals of the tiles created
\* during that update included.
C15_Lockstep ==
  \A i, j \in 1..Len(signals) :
    signals[i].phase = signals[j].phase =>
      /\ signals[i].red = signals[j].red
      /\ signals[i].yellow = signals[j].yellow
      /\ signals[i].green = signals[j].green

\* the stage of the cycle at clock value t, 1..6 in the order of the cycle
PhaseOf(t) ==
  IF inNSGreen(t) THEN 1 ELSE IF inNSYellow(t) THEN 2 ELSE IF inAllRed1(t) THEN 3
  ELSE IF inEWGreen(t) THEN 4 ELSE IF inEWYellow(t) THEN 5 ELSE 6
ShortestPhase ==
  Min(Min(NS_GREEN, NS_YELLOW), Min(Min(ALL_RED_1, EW_GREEN), Min(EW_YELLOW, ALL_RED_2))) * T

----------------------------------------------------------------------------
(* Claims about the handoff between the Crowd and the Sim tier *)

\* the handoff step ran in this update: its accumulator went down by a step
HandoffTick == handoffAcc' < handoffAcc
\* the player did not move between the last update and this one
Stationary == lastPlayerPos # NoPoint /\ lastPlayerPos' = lastPlayerPos

PromotedNow(i) == \E k \in 1..Len(promos') : promos'[k][1] = i

\* C18: from its promotion until its fade-out timer has run out the Crowd
\* tier does not change an agent's position: an update that promotes the
\* agent or begins with its fade-out timer running leaves the position as it
\* was, whether or not the logic step runs.  The end of the fade-out starts
\* the suppression of CROWD_SUPPRESS_SEC with the position still unchanged,
\* the position stays during the suppression, and the agent is respawned only
\* by the update in which the suppression timer runs out.
C18_HeldUntilFadedOut ==
  [][ \A i \in 1..Len(crowd.a) :
        /\ (crowd.a[i].fadeOutLeft > 0 \/ PromotedNow(i)) =>
             /\ crowd'.a[i].pos = crowd.a[i].pos
             /\ crowd'.a[i].did \notin {"move", "teleport", "respawn"}
        /\ (crowd.a[i].fadeOutLeft > 0 /\ crowd'.a[i].fadeOutLeft <= 0) =>
             crowd'.a[i].suppressLeft = CROWD_SUPPRESS_SEC
        /\ (crowd.a[i].suppressLeft > 0 /\ crowd'.a[i].suppressLeft > 0) =>
             crowd'.a[i].pos = crowd.a[i].pos
        /\ crowd'.a[i].did = "respawn" =>
             /\ crowd.a[i].fadeOutLeft <= 0
             /\ crowd.a[i].suppressLeft > 0
             /\ crowd'.a[i].suppressLeft <= 0
             /\ ~PromotedNow(i) ]_vars
\* reached: the Crowd logic step has run in an update that found a promoted
\* agent fading out, and the player has moved since the promotion
C18_Witness ==
  /\ ticks > 1 /\ crowd.wrote /\ moves > 0
  /\ \E i \in 1..Len(crowd.a) :
       /\ crowd.a[i].did = "fade"
       /\ crowd.a[i].fadeOutLeft > 0
       /\ promos = << >>

C20_VictimIsFarthest ==
  \A k \in 1..Len(promos) :
    \A j \in DOMAIN promos[k][3] :
      promos[k][3][promos[k][2]] >= promos[k][3][j]
\* reached: two promotions in one update, each taking a slot whose agent was
\* farther from the observer than another Sim agent
C20_Witness ==
  /\ Len(promos) >= 2
  /\ \A k \in 1..Len(promos) :
       /\ Len(promos[k][3]) = NPC_SIM_MAX
       /\ \E j \in DOMAIN promos[k][3] :
            promos[k][3][j] < promos[k][3][promos[k][2]]

\* the radius inside which the conversion is said to be forced: the code has
\* no such radius, the Sim ring itself is taken
ForceRadius == NPC_SIM_RADIUS

\* C21: at a handoff tick every eligible Crowd agent within the force radius
\* of the observer is promoted in that tick, whatever the promotion budget
\* of the tick and whatever the spacing to the Sim agents.
C21_ForcedConversion ==
  [][ HandoffTick =>
        \A i \in 1..Len(crowd.a) :
          ( /\ eligible(crowd.a[i])
            /\ Dist2(crowd.a[i].pos, lastPlayerPos') <= ForceRadius * ForceRadius )
          => PromotedNow(i) ]_vars

----------------------------------------------------------------------------
(* Claims about the routes of the Sim agents *)

\* the points of the leg from a to b at the sixteenths of its length
LegPoints(a, b) ==
  { Pt(a.x + ((b.x - a.x) * t) \div 16, a.z + ((b.z - a.z) * t) \div 16) : t \in 0..16 }
\* a point of a carriageway that is in no marked crosswalk
\* (strictly inside the asphalt: the kerb line itself belongs to the sidewalk)
OnBareRoad(q) ==
  /\ (Abs(LocalOf(q.x)) < halfRoad \/ Abs(LocalOf(q.z)) < halfRoad)
  /\ ~isInCrosswalkWorld(q.x, q.z)
\* the routes planned during the last update: <<from, waypoints...>>
Plans == { sim[j].plan : j \in { j2 \in 1..Len(sim) : sim[j2].plan # << >> } }
Opposite(a, b) == {a, b} = {"N", "S"} \/ {a, b} = {"E", "W"}

\* C22: a route has the single waypoint [destination] when start and
\* destination are on the same side, [corner, destination] when the sides are
\* adjacent and [entry, midpoint, exit, destination] with the three on one
\* marked crosswalk when they are opposite; and no leg of a route passes
\* over a carriageway outside a crosswalk rectangle.
C22_RouteBySides ==
  \A r \in Plans :
    LET sideA == classifySideWorld(r[1].x, r[1].z)
        sideB == classifySideWorld(r[Len(r)].x, r[Len(r)].z)
    IN  /\ sideA = sideB => Len(r) = 2
        /\ (sideA # sideB /\ ~Opposite(sideA, sideB)) => Len(r) = 3
        /\ Opposite(sideA, sideB) =>
             /\ Len(r) = 5
             /\ isInCrosswalkWorld(r[3].x, r[3].z)
             /\ \A q \in LegPoints(r[2], r[3]) \cup LegPoints(r[3], r[4]) : ~OnBareRoad(q)
        /\ \A k \in 1..(Len(r) - 1) : \A q \in LegPoints(r[k], r[k + 1]) : ~OnBareRoad(q)

----------------------------------------------------------------------------
(* Claims about the Sim agents at the lights *)

\* slot j holds the same agent before and after the update
SameAgent(j) ==
  /\ j <= Len(sim)
  /\ sim'[j].did \notin {"promote", "recycle", "recycle+wait"}
\* the crossing of the axis is not legal at the light the update read
Illegal(axis, light) == light # "off" /\ ~canPedCross(axis, light = "X")

\* an agent that obeys the lights and comes within reach of a crosswalk
\* entry while the crossing of its axis is not legal is Idle after the update
\* with an idle timer of at least 0.12 s, and is not on the crosswalk
StopsAtEntry(j) ==
  ( /\ SameAgent(j)
    /\ sim[j].obeyTraffic /\ atEntry(sim[j])
    /\ Illegal(isCrosswalkEntry(sim[j].target, sim[j].way[1]), sim'[j].light) )
  => /\ sim'[j].mode = "idle"
     /\ sim'[j].idleLeft >= (12 * T) \div 100
     /\ ~isInCrosswalkWorld(sim'[j].pos.x, sim'[j].pos.z)
\* an agent stopped at an entry stays Idle where it is, with an idle timer of
\* at least 0.12 s, in every update that finds the crossing still not legal
WaitsWhileIllegal(j) ==
  ( /\ SameAgent(j)
    /\ sim[j].stop # "none"
    /\ Illegal(sim[j].stop, sim'[j].light) )
  => /\ sim'[j].mode = "idle"
     /\ sim'[j].idleLeft >= (12 * T) \div 100
     /\ sim'[j].pos = sim[j].pos

\* C24: a Sim agent that obeys the lights and reaches a crosswalk entry while
\* the crossing of that axis is not legal enters the forced wait (Idle, idle
\* timer at least 0.12 s), does not move onto the crosswalk and stays waiting
\* for as long as the crossing remains illegal.
C24_HeldAtRed ==
  [][ \A j \in 1..Len(sim') : StopsAtEntry(j) /\ WaitsWhileIllegal(j) ]_vars

----------------------------------------------------------------------------
(* Claims about the drift check of the Sim tier *)

\* the drift check of the update recycled the agent of slot j
DriftRecycled(j) == sim'[j].did \in {"recycle", "recycle+wait"}
\* the update promoted a Crowd agent into slot j before the drift check
PromotedInto(j) == \E k \in 1..Len(promos') : promos'[k][2] = j

\* C25: the drift check of an update recycles a Sim agent exactly when its
\* distance from the observer exceeds 1.8 x NPC_SIM_RADIUS, and the recycled
\* agent is placed within NPC_SIM_RADIUS of the observer.
C25_DriftThreshold ==
  [][ \A j \in 1..Len(sim) :
        ~PromotedInto(j) =>
          /\ DriftRecycled(j) <=>
               Dist2(sim[j].pos, lastPlayerPos')
                 > ((18 * NPC_SIM_RADIUS) \div 10) * ((18 * NPC_SIM_RADIUS) \div 10)
          /\ DriftRecycled(j) =>
               Dist2(sim'[j].plan[1], lastPlayerPos') <= NPC_SIM_RADIUS * NPC_SIM_RADIUS ]_vars

----------------------------------------------------------------------------
(* Claims about the placement of the buildings *)

\* the footprints a and b keep the padding margin on the x or on the z axis
Apart(a, b) ==
  \/ a.minX - b.maxX >= PlacePad \/ b.minX - a.maxX >= PlacePad
  \/ a.minZ - b.maxZ >= PlacePad \/ b.minZ - a.maxZ >= PlacePad
\* the buildings of a chunk whose centre is in the lot
InLot(c, lot) ==
  { i \in 1..Len(c.buildings) :
      /\ lot.minX <= c.buildings[i].x /\ c.buildings[i].x <= lot.maxX
      /\ lot.minZ <= c.buildings[i].z /\ c.buildings[i].z <= lot.maxZ }

\* C26: in every generated tile any two placed footprints, of the same lot or
\* of different lots, are apart by the 1.6 padding margin on at least one
\* axis; a building is tried at no more than 28 positions and skipped when
\* all 28 are taken; a lot holds at most 5 buildings.
C26_FootprintsApart ==
  \A k \in GenTiles :
    gen[k] # NoChunk =>
      /\ \A i, j \in 1..Len(gen[k].buildings) :
           i # j => Apart(gen[k].buildings[i], gen[k].buildings[j])
      /\ \A n \in 1..Len(gen[k].tries) :
           /\ gen[k].tries[n][1] <= PlaceTries
           /\ ~gen[k].tries[n][2] => gen[k].tries[n][1] = PlaceTries
      /\ Len(gen[k].buildings) = Cardinality({ n \in 1..Len(gen[k].tries) : gen[k].tries[n][2] })
      /\ \A n \in 1..Len(Lots) : Cardinality(InLot(gen[k], Lots[n])) <= 5
C26_Witness ==
  \E k \in GenTiles :
    /\ gen[k] # NoChunk
    /\ \E n \in 1..Len(gen[k].tries) : gen[k].tries[n][1] > 1 /\ gen[k].tries[n][2]
    /\ \E n \in 1..Len(gen[k].tries) : ~gen[k].tries[n][2]
    /\ \E i, j \in 1..Len(gen[k].buildings) :
         /\ i # j
         /\ \E n \in 1..Len(Lots) : i \in InLot(gen[k], Lots[n]) /\ j \notin InLot(gen[k], Lots[n])

----------------------------------------------------------------------------
(* Claims about the opacity of the Fake tier *)

\* C27: after every update a Fake agent that is at most NPC_CROWD_RADIUS + 10
\* from the observer's current position is rendered with opacity 0, however
\* the observer has moved since the last Fake refresh.
C27_FakeHiddenNearCrowd ==
  lastPlayerPos # NoPoint =>
    \A i \in 1..Len(fake.a) :
      Dist2(fake.a[i].pos, lastPlayerPos)
        <= (NPC_CROWD_RADIUS + 10 * U) * (NPC_CROWD_RADIUS + 10 * U)
      => fake.a[i].alpha = 0

----------------------------------------------------------------------------
(* Claims about the obstacle queries *)

\* C28: an obstacle query with a zero or negative radius is a no-op:
\* resolveCircleAgainstBuildings leaves the position where it was and
\* isCircleOverlappingBuildings returns false.
C28_NoRadiusNoOp ==
  (qry # NoPoint /\ qry.radius <= 0) => (qry.out = qry.pos /\ ~qry.hit)

----------------------------------------------------------------------------
(* Claims about the promotions of one handoff tick *)

\* C29: within one handoff tick every Sim agent receives at most one
\* promotion, so the tick performs no more promotions than there are Sim
\* agents.
C29_OnePromotionPerSim ==
  /\ \A k1, k2 \in 1..Len(promos) : k1 # k2 => promos[k1][2] # promos[k2][2]
  /\ Len(promos) <= Len(sim)

\* the Crowd instances a promotion may take by the words of the claim: in
\* reach, not suppressed and not fading out, as promotion k found them
Offered(k) ==
  { i \in 1..Len(promos[k][5]) :
      /\ inConvertRange(promos[k][5][i], lastPlayerPos)
      /\ promos[k][5][i].suppressLeft <= 0
      /\ promos[k][5][i].fadeOutLeft <= 0 }
\* and those of them that are at least 5 % faded in
OfferedVisible(k) == { i \in Offered(k) : promos[k][5][i].fadeMul >= 50 }
OnRoad(k, i) == isNearRoad(promos[k][5][i].pos.x, promos[k][5][i].pos.z)
Spaced(k, i) ==
  \A j \in 1..Len(promos[k][4]) :
    Dist2(promos[k][4][j], promos[k][5][i].pos) >= ((6 * U) \div 5) * ((6 * U) \div 5)
\* the strictest of the three passes that has a candidate among S
StrictestPass(k, S) ==
  IF \E i \in S : OnRoad(k, i) /\ Spaced(k, i)
  THEN { i \in S : OnRoad(k, i) /\ Spaced(k, i) }
  ELSE IF \E i \in S : OnRoad(k, i) THEN { i \in S : OnRoad(k, i) }
  ELSE S
NearestOf(k, S) ==
  /\ promos[k][1] \in S
  /\ \A i \in S : Dist2(promos[k][5][promos[k][1]].pos, lastPlayerPos)
                    <= Dist2(promos[k][5][i].pos, lastPlayerPos)
OncePerTick == \A k1, k2 \in 1..Len(promos) : k1 # k2 => promos[k1][1] # promos[k2][1]

\* C30 as stated: each promotion takes, among the Crowd agents in reach that
\* are neither suppressed nor fading out, the one nearest to the observer in
\* the strictest pass that has a candidate (near a road and spaced from the
\* Sim agents, then near a road, then any); no agent is promoted twice in one
\* tick, and none while its fade-out or suppression is running.
C30_NearestInStrictestPass ==
  /\ \A k \in 1..Len(promos) : NearestOf(k, StrictestPass(k, Offered(k)))
  /\ OncePerTick

\* C30, amended: the choice is among the agents that are also at least 5 %
\* faded in; an agent that has just respawned is passed over.
C30_NearestVisibleInStrictestPass ==
  /\ \A k \in 1..Len(promos) : NearestOf(k, StrictestPass(k, OfferedVisible(k)))
  /\ OncePerTick
\* reached: a promotion has taken the only candidate that was faded in while
\* an agent that had just respawned stood nearer to the observer, in reach
\* and neither suppressed nor fading out
C30_Witness ==
  \E k \in 1..Len(promos) :
    /\ promos[k][1] \in OfferedVisible(k)
    /\ \E i \in Offered(k) \ OfferedVisible(k) :
         /\ promos[k][5][i].fadeMul = 0
         /\ Dist2(promos[k][5][i].pos, lastPlayerPos)
              < Dist2(promos[k][5][promos[k][1]].pos, lastPlayerPos)

----------------------------------------------------------------------------
(* Claims about the walk of the Sim agents *)

SimSlots == 1..NPC_SIM_MAX

\* Sim agent j is walking
Walking(j) == j <= Len(sim) /\ sim[j].mode = "walk"

\* Sim agent j stands within 0.7 m of its target, is idle, or has been
\* recycled by the last update
WalkEnded(j) ==
  /\ j <= Len(sim)
  /\ \/ Dist2(sim[j].pos, sim[j].target) < ((7 * U) \div 10) * ((7 * U) \div 10)
     \/ sim[j].mode = "idle"
     \/ sim[j].did = "recycle"

\* C31: every Sim agent in Walk mode makes progress: as the updates go on it
\* eventually stands within 0.7 m of its current target, is idle, or is
\* recycled; it does not keep walking forever towards a target the projection
\* keeps it from reaching.
C31_WalkersArrive == \A j \in SimSlots : Walking(j) ~> WalkEnded(j)

\* the tile of the pedestrian ground that holds q
TileOf(q) == <<RoundTile(q.x), RoundTile(q.z)>>

\* C32: every waypoint a planned route has between its start and its
\* destination (a corner, or the entry, midpoint and exit of a crosswalk) lies
\* in the tile that holds the start, in whichever tile the agent is.
C32_WaypointsInStartTile ==
  \A r \in Plans : \A k \in 2..(Len(r) - 1) : TileOf(r[k]) = TileOf(r[1])

----------------------------------------------------------------------------
(* Claims about the fade-in of the Sim agents *)

\* the update neither promoted into slot j nor recycled its agent
Kept(j) == SameAgent(j) /\ ~PromotedInto(j)

\* C33: in every update in which a Sim agent is neither promoted nor
\* recycled its fade rises, walking or idle, until it is 1, and stays 1 from
\* then on; the fade falls only by a spawn, a promotion or a recycle.
C33_FadeRises ==
  [][ \A j \in 1..Len(sim) :
        Kept(j) =>
          /\ sim[j].fade < SIM_FADE_IN_SEC => sim'[j].fade > sim[j].fade
          /\ sim[j].fade = SIM_FADE_IN_SEC => sim'[j].fade = SIM_FADE_IN_SEC ]_vars

----------------------------------------------------------------------------
(* Claims about the phone pause *)

\* the phone pause of the agent of slot j ends in this update: the agent was
\* idle with the pause running and walks after it, or has begun another pause
\* (only a walking agent begins one)
PauseEnded(j) ==
  /\ Kept(j)
  /\ sim[j].mode = "idle" /\ sim[j].phonePauseLeft > 0
  /\ \/ sim'[j].mode = "walk"
     \/ sim'[j].phonePauseLeft > sim[j].phonePauseLeft

\* C34: when the phone pause of a Sim agent ends the agent walks on towards
\* the target and with the waypoint queue it had before the pause; no new
\* route is planned.
C34_ResumesSameRoute ==
  [][ \A j \in 1..Len(sim) :
        PauseEnded(j) =>
          /\ sim'[j].target = sim[j].target
          /\ sim'[j].way = sim[j].way
          /\ sim'[j].plan = << >> ]_vars

(* Claims about the lamps of the two phase groups *)

Lit(s) == Cardinality({ l \in {"red", "yellow", "green"} :
                          \/ l = "red" /\ s.red
                          \/ l = "yellow" /\ s.yellow
                          \/ l = "green" /\ s.green })

\* C35: every registered signal shows exactly one lamp, and whenever a signal
\* of one phase group shows green or yellow, every signal of the other group
\* shows red, the signals registered during the update included.
C35_NoConflict ==
  /\ \A i \in 1..Len(signals) : Lit(signals[i]) = 1
  /\ \A i, j \in 1..Len(signals) :
        (signals[i].phase # signals[j].phase /\ (signals[i].green \/ signals[i].yellow))
          => signals[j].red

\* the EW group shows yellow at the end of an update, the NS group red
C35_Witness ==
  /\ updates > 0
  /\ \E i \in 1..Len(signals) : signals[i].phase = "EW" /\ signals[i].yellow
  /\ \E j \in 1..Len(signals) : signals[j].phase = "NS" /\ signals[j].red

(* Claims about the signal registry *)

\* C36: after every update the signal registry holds exactly the signals of
\* the loaded tiles, four per loaded tile: the signals of an evicted tile
\* leave the registry with the tile.
C36_RegistryOfLoadedTiles == Len(signals) = 4 * Cardinality(DOMAIN loaded)

(* Claims about the tiles the obstacle queries consult *)

\* the keys the loops over dz and dx of the obstacle queries read for a
\* position at <<x, z>> metres
QueryKeys(p) ==
  { <<RoundTile(p[1] * U) + dx, RoundTile(p[2] * U) + dz>> : dx, dz \in -1..1 }

\* C37: after update(p) with a load radius of at least 1, the nine tiles the
\* obstacle queries consult for the position p are all loaded.
C37_QueryTilesLoaded ==
  (updates > 0 /\ lastR >= 1) => QueryKeys(obs) \subseteq DOMAIN loaded

(* Claims about the result of the push-out *)

\* C38: on return of resolveCircleAgainstBuildings the circle (result,
\* radius) overlaps no obstacle box of the loaded neighbourhood:
\* isCircleOverlappingBuildings on the result is false.
C38_ResultOverlapsNothing ==
  [][ qry' # qry => ~isCircleOverlappingBuildings(gen, qry'.out, qry'.radius) ]_vars

(* Claims about the footprints and the walkable ground *)

AgentRadius == (12 * U) \div 25

\* the rectangles of the walkable projection of tile k, in world coordinates
WalkRectsOf(k) ==
  { Rect(k[1] * TileLen + rects[n].minX, k[1] * TileLen + rects[n].maxX,
         k[2] * TileLen + rects[n].minZ, k[2] * TileLen + rects[n].maxZ) :
    n \in 1..Len(rects) }

\* the squared distance of two rectangles
RectDist2(a, b) ==
  LET gx == Max(0, Max(a.minX - b.maxX, b.minX - a.maxX))
      gz == Max(0, Max(a.minZ - b.maxZ, b.minZ - a.maxZ))
  IN  gx * gx + gz * gz

\* pedestrian-legal positions of tile k next to its lots: on the lot side of
\* the sidewalk bands, every 1.5 m along them
WalkSamples(k) ==
  { q \in { Pt(k[1] * TileLen + sx * a, k[2] * TileLen + sz * b) :
              sx, sz \in {-1, 1},
              a, b \in {halfRoad + SIDEWALK_W} \cup
                       { halfRoad + SIDEWALK_W + n * ((3 * U) \div 2) : n \in 1..14 } } :
      WorldLegal(q) }

\* C39: every footprint of a generated tile lies inside one of the four lots
\* of the tile; every obstacle box (footprint grown by 0.55) is farther than
\* the agent radius 0.48 from every sidewalk band and crosswalk rectangle of
\* the tile and of the tiles around it; and resolving a pedestrian-legal
\* position against the buildings with radius 0.48 leaves it where it was.
C39_LegalNeverPushed ==
  \A k \in GenTiles :
    gen[k] # NoChunk =>
      /\ \A i \in 1..Len(gen[k].buildings) :
           \E n \in 1..Len(Lots) :
             /\ Lots[n].minX <= gen[k].buildings[i].minX
             /\ gen[k].buildings[i].maxX <= Lots[n].maxX
             /\ Lots[n].minZ <= gen[k].buildings[i].minZ
             /\ gen[k].buildings[i].maxZ <= Lots[n].maxZ
      /\ \A i \in 1..Len(gen[k].buildings) :
           \A dx, dz \in -1..1 :
             \A w \in WalkRectsOf(<<k[1] + dx, k[2] + dz>>) :
               RectDist2(ObstacleBoxes(gen, k)[i], w) > AgentRadius * AgentRadius
      /\ \A q \in WalkSamples(k) :
           /\ resolveCircleAgainstBuildings(gen, q, AgentRadius) = q
           /\ ~isCircleOverlappingBuildings(gen, q, AgentRadius)

\* a tile is generated with an obstacle box within 2 m of a pedestrian-legal
\* position, and the radius-0.48 query has been made beside a box
C39_Witness ==
  /\ \E k \in GenTiles :
       /\ gen[k] # NoChunk
       /\ \E q \in WalkSamples(k) :
            \E n \in 1..Len(NearBoxes(gen, q)) : BoxDist2(q, NearBoxes(gen, q)[n]) < (2 * U) * (2 * U)
  /\ qry # NoPoint /\ qry.radius = AgentRadius /\ qry.out = qry.pos /\ ~qry.hit

(* Claims about a handoff tick without a candidate *)

\* the pools as tryHandoffCrowdToSim finds them in the update of this step
PreTick ==
  [sim |-> ensureSimPopulation(Forget(sim), lastPlayerPos', stream),
   crowd |-> ensureThinPopulation(ForgetThin(crowd), "crowd", lastPlayerPos', stream),
   acc |-> handoffAcc, from |-> simFrom, promos |-> << >>]
\* and as it leaves them
PostTick ==
  tryHandoffCrowdToSim(PreTick,
                       IF shortFrames' > shortFrames THEN T \div 30 ELSE T \div 15,
                       lastPlayerPos', stream,
                       IF lastPlayerPos = NoPoint THEN 0
                       ELSE (Sqrt(Dist2(lastPlayerPos', lastPlayerPos)) * T)
                              \div (IF shortFrames' > shortFrames THEN T \div 30 ELSE T \div 15))
NoCandidate ==
  /\ pickCandidate(PreTick, lastPlayerPos', TRUE, TRUE) = 0
  /\ pickCandidate(PreTick, lastPlayerPos', TRUE, FALSE) = 0
  /\ pickCandidate(PreTick, lastPlayerPos', FALSE, FALSE) = 0

\* C40: a handoff tick that finds no eligible Crowd candidate in any of its
\* three passes promotes nothing and changes no field of a Sim agent or of a
\* Crowd agent (the lock timers included); the update goes on with the pools
\* as the tick found them.
C40_NoCandidateNoChange ==
  [][ (HandoffTick /\ NoCandidate) =>
        /\ PostTick.sim = PreTick.sim
        /\ PostTick.crowd = PreTick.crowd
        /\ PostTick.from = simFrom
        /\ PostTick.acc = handoffAcc'
        /\ promos' = << >>
        /\ handoffLocks' = [ i \in 1..PreTick.crowd.count |-> PreTick.crowd.a[i].lockLeft ] ]_vars

\* a tick has just run with both pools filled, among them a Crowd agent that
\* is not suppressed and not fading out, and has promoted nothing
C40_Witness ==
  /\ ticks > 1
  /\ handoffAcc < T \div 30
  /\ Len(sim) > 0 /\ crowd.count > 0
  /\ promos = << >>
  /\ \E i \in 1..Len(crowd.a) : crowd.a[i].suppressLeft <= 0 /\ crowd.a[i].fadeOutLeft <= 0

====
